---- MODULE Spec2Model ----
\* Model of MockServerClient (src/src/index.ts): the six public operations,
\* the private request primitive with its timeout clock, and the error
\* classification that maps transport outcomes to ToolError kinds.
\*
\* JavaScript strings are sequences of one-character strings, so that
\* String.prototype.includes, template concatenation, split and parseInt
\* are computed rather than assumed.  JavaScript values are records with the
\* uniform fields t (tag), s (string chars), n (number), items, keys.
EXTENDS Integers, Sequences, FiniteSets, TLC

\* ------------------------------------------------------------------ bounds
\* number of call slots (call sites that may hold a call of the client)
MaxCalls == 2

Calls == 1..MaxCalls

\* ----------------------------------------------------------- string literals
\* 'http://'
s_scheme ==
  <<"h","t","t","p",":","/","/">>
\* 'localhost'
s_localhost ==
  <<"l","o","c","a","l","h","o","s","t">>
\* '::1'
s_ipv6 ==
  <<":",":","1">>
\* '/mockserver/expectation'
p_expectation ==
  <<"/","m","o","c","k","s","e","r","v","e","r","/","e","x","p","e","c","t","a","t","i","o","n">>
\* '/mockserver/verify'
p_verify ==
  <<"/","m","o","c","k","s","e","r","v","e","r","/","v","e","r","i","f","y">>
\* '/mockserver/clear'
p_clear ==
  <<"/","m","o","c","k","s","e","r","v","e","r","/","c","l","e","a","r">>
\* '/mockserver/reset'
p_reset ==
  <<"/","m","o","c","k","s","e","r","v","e","r","/","r","e","s","e","t">>
\* '/mockserver/retrieve'
p_retrieve ==
  <<"/","m","o","c","k","s","e","r","v","e","r","/","r","e","t","r","i","e","v","e">>
\* '/mockserver/status'
p_status ==
  <<"/","m","o","c","k","s","e","r","v","e","r","/","s","t","a","t","u","s">>
\* 'type'
k_type ==
  <<"t","y","p","e">>
\* 'REQUESTS'
s_REQUESTS ==
  <<"R","E","Q","U","E","S","T","S">>
\* 'httpRequest'
k_httpRequest ==
  <<"h","t","t","p","R","e","q","u","e","s","t">>
\* 'httpResponse'
k_httpResponse ==
  <<"h","t","t","p","R","e","s","p","o","n","s","e">>
\* 'times'
k_times ==
  <<"t","i","m","e","s">>
\* 'exactly'
k_exactly ==
  <<"e","x","a","c","t","l","y">>
\* 'atLeast'
k_atLeast ==
  <<"a","t","L","e","a","s","t">>
\* 'atMost'
k_atMost ==
  <<"a","t","M","o","s","t">>
\* 'version'
k_version ==
  <<"v","e","r","s","i","o","n">>
\* 'statusCode'
k_statusCode ==
  <<"s","t","a","t","u","s","C","o","d","e">>
\* 'host'
k_host ==
  <<"h","o","s","t">>
\* 'originalError'
k_originalError ==
  <<"o","r","i","g","i","n","a","l","E","r","r","o","r">>
\* 'success'
k_success ==
  <<"s","u","c","c","e","s","s">>
\* 'matchedCount'
k_matchedCount ==
  <<"m","a","t","c","h","e","d","C","o","u","n","t">>
\* 'message'
k_message ==
  <<"m","e","s","s","a","g","e">>
\* 'port'
k_port ==
  <<"p","o","r","t">>
\* 'reachable'
k_reachable ==
  <<"r","e","a","c","h","a","b","l","e">>
\* 'path'
k_path ==
  <<"p","a","t","h">>
\* 'method'
k_method ==
  <<"m","e","t","h","o","d">>
\* 'body'
k_body ==
  <<"b","o","d","y">>
\* 'queryStringParameters'
k_queryStringParameters ==
  <<"q","u","e","r","y","S","t","r","i","n","g","P","a","r","a","m","e","t","e","r","s">>
\* 'sort'
k_sort ==
  <<"s","o","r","t">>
\* 'name'
s_name ==
  <<"n","a","m","e">>
\* 'asc'
s_asc ==
  <<"a","s","c">>
\* 'GET'
s_GET ==
  <<"G","E","T">>
\* '/test'
s_test ==
  <<"/","t","e","s","t">>
\* 'OK'
s_OK ==
  <<"O","K">>
\* 'Unknown error'
s_UnknownError ==
  <<"U","n","k","n","o","w","n"," ","e","r","r","o","r">>
\* 'Verification failed: '
s_VerificationFailed ==
  <<"V","e","r","i","f","i","c","a","t","i","o","n"," ","f","a","i","l","e","d",":"," ">>
\* 'MockServer error: '
s_MockServerError ==
  <<"M","o","c","k","S","e","r","v","e","r"," ","e","r","r","o","r",":"," ">>
\* 'Connection to MockServer timed out after '
s_TimedOut ==
  <<"C","o","n","n","e","c","t","i","o","n"," ","t","o"," ","M","o","c","k","S","e","r","v","e","r"," ","t","i","m","e","d"," ","o","u","t"," ","a","f","t","e","r"," ">>
\* 'ms'
s_ms ==
  <<"m","s">>
\* 'Cannot connect to MockServer at '
s_CannotConnect ==
  <<"C","a","n","n","o","t"," ","c","o","n","n","e","c","t"," ","t","o"," ","M","o","c","k","S","e","r","v","e","r"," ","a","t"," ">>
\* 'Unexpected error: '
s_Unexpected ==
  <<"U","n","e","x","p","e","c","t","e","d"," ","e","r","r","o","r",":"," ">>
\* 'ECONNREFUSED'
s_ECONNREFUSED ==
  <<"E","C","O","N","N","R","E","F","U","S","E","D">>
\* 'fetch failed'
s_fetchFailed ==
  <<"f","e","t","c","h"," ","f","a","i","l","e","d">>
\* 'network'
s_network ==
  <<"n","e","t","w","o","r","k">>
\* 'fetch failed: ECONNREFUSED'
m_refused ==
  <<"f","e","t","c","h"," ","f","a","i","l","e","d",":"," ","E","C","O","N","N","R","E","F","U","S","E","D">>
\* 'connect ECONNREFUSED ::1'
m_econn ==
  <<"c","o","n","n","e","c","t"," ","E","C","O","N","N","R","E","F","U","S","E","D"," ",":",":","1">>
\* 'network down'
m_networkDown ==
  <<"n","e","t","w","o","r","k"," ","d","o","w","n">>
\* 'This operation was aborted'
m_aborted ==
  <<"T","h","i","s"," ","o","p","e","r","a","t","i","o","n"," ","w","a","s"," ","a","b","o","r","t","e","d">>
\* 'aborted: network'
m_abortedNetwork ==
  <<"a","b","o","r","t","e","d",":"," ","n","e","t","w","o","r","k">>
\* 'terminated'
m_terminated ==
  <<"t","e","r","m","i","n","a","t","e","d">>
\* 'Network Error'
m_NetworkCaps ==
  <<"N","e","t","w","o","r","k"," ","E","r","r","o","r">>
\* 'getaddrinfo ENOTFOUND h'
m_enotfound ==
  <<"g","e","t","a","d","d","r","i","n","f","o"," ","E","N","O","T","F","O","U","N","D"," ","h">>
\* 'boom'
m_thrownString ==
  <<"b","o","o","m">>
\* 'http://localhost:1080'
u_localhost1080 ==
  <<"h","t","t","p",":","/","/","l","o","c","a","l","h","o","s","t",":","1","0","8","0">>
\* 'http://localhost:1'
u_localhost1 ==
  <<"h","t","t","p",":","/","/","l","o","c","a","l","h","o","s","t",":","1">>
\* 'http://::1:65535'
u_ipv6 ==
  <<"h","t","t","p",":","/","/",":",":","1",":","6","5","5","3","5">>
\* ''
b_empty ==
  << >>
\* 'Request not matched'
b_notMatched ==
  <<"R","e","q","u","e","s","t"," ","n","o","t"," ","m","a","t","c","h","e","d">>
\* '{"version":"5.15.0"}'
b_version ==
  <<"{","\"","v","e","r","s","i","o","n","\"",":","\"","5",".","1","5",".","0","\"","}">>
\* '[]'
b_emptyArray ==
  <<"[","]">>
\* '[{"path":"/test"},{"method":"GET"}]'
b_requests ==
  <<"[","{","\"","p","a","t","h","\"",":","\"","/","t","e","s","t","\"","}",",","{","\"","m","e","t","h","o","d","\"",":","\"","G","E","T","\"","}","]">>
\* 'null'
b_null ==
  <<"n","u","l","l">>
\* '<html>'
b_html ==
  <<"<","h","t","m","l",">">>
\* '{"version":'
b_truncated ==
  <<"{","\"","v","e","r","s","i","o","n","\"",":">>
\* '42'
b_number ==
  <<"4","2">>
\* '{}'
t_emptyObject ==
  <<"{","}">>
\* '{"httpRequest":'
t_httpRequestOpen ==
  <<"{","\"","h","t","t","p","R","e","q","u","e","s","t","\"",":">>
\* ',"times":'
t_timesMember ==
  <<",","\"","t","i","m","e","s","\"",":">>
\* '?type=REQUESTS'
t_typeRequests ==
  <<"?","t","y","p","e","=","R","E","Q","U","E","S","T","S">>
\* '{"httpRequest":{"path":"/test","queryStringParameters":{"sort":["name","asc"]}}}'
t_sortExpectation ==
  <<"{","\"","h","t","t","p","R","e","q","u","e","s","t","\"",":","{","\"","p","a","t","h","\"",":","\"","/","t","e","s","t","\"",",","\"","q","u","e","r","y","S","t","r","i","n","g","P","a","r","a","m","e","t","e","r","s","\"",":","{","\"","s","o","r","t","\"",":","[","\"","n","a","m","e","\"",",","\"","a","s","c","\"","]","}","}","}">>
\* 'mockserver_create_expectation'
n_createExpectation ==
  <<"m","o","c","k","s","e","r","v","e","r","_","c","r","e","a","t","e","_","e","x","p","e","c","t","a","t","i","o","n">>
\* 'mockserver_verify'
n_verify ==
  <<"m","o","c","k","s","e","r","v","e","r","_","v","e","r","i","f","y">>
\* 'mockserver_clear'
n_clear ==
  <<"m","o","c","k","s","e","r","v","e","r","_","c","l","e","a","r">>
\* 'mockserver_reset'
n_reset ==
  <<"m","o","c","k","s","e","r","v","e","r","_","r","e","s","e","t">>
\* 'mockserver_retrieve_requests'
n_retrieveRequests ==
  <<"m","o","c","k","s","e","r","v","e","r","_","r","e","t","r","i","e","v","e","_","r","e","q","u","e","s","t","s">>
\* 'mockserver_status'
n_status ==
  <<"m","o","c","k","s","e","r","v","e","r","_","s","t","a","t","u","s">>
\* 'mockserver_delete'
n_unregistered ==
  <<"m","o","c","k","s","e","r","v","e","r","_","d","e","l","e","t","e">>
\* 'pathParameters'
k_pathParameters ==
  <<"p","a","t","h","P","a","r","a","m","e","t","e","r","s">>
\* 'headers'
k_headers ==
  <<"h","e","a","d","e","r","s">>
\* 'value'
k_value ==
  <<"v","a","l","u","e">>
\* 'matchType'
k_matchType ==
  <<"m","a","t","c","h","T","y","p","e">>
\* 'delay'
k_delay ==
  <<"d","e","l","a","y">>
\* 'timeUnit'
k_timeUnit ==
  <<"t","i","m","e","U","n","i","t">>
\* 'remainingTimes'
k_remainingTimes ==
  <<"r","e","m","a","i","n","i","n","g","T","i","m","e","s">>
\* 'unlimited'
k_unlimited ==
  <<"u","n","l","i","m","i","t","e","d">>
\* 'timeToLive'
k_timeToLive ==
  <<"t","i","m","e","T","o","L","i","v","e">>
\* 'id'
k_id ==
  <<"i","d">>
\* 'timestamp'
k_timestamp ==
  <<"t","i","m","e","s","t","a","m","p">>
\* 'errors'
k_errors ==
  <<"e","r","r","o","r","s">>
\* 'STRING'
e_STRING ==
  <<"S","T","R","I","N","G">>
\* 'JSON'
e_JSON ==
  <<"J","S","O","N">>
\* 'REGEX'
e_REGEX ==
  <<"R","E","G","E","X">>
\* 'XPATH'
e_XPATH ==
  <<"X","P","A","T","H">>
\* 'JSON_PATH'
e_JSON_PATH ==
  <<"J","S","O","N","_","P","A","T","H">>
\* 'STRICT'
e_STRICT ==
  <<"S","T","R","I","C","T">>
\* 'ONLY_MATCHING_FIELDS'
e_ONLY_MATCHING_FIELDS ==
  <<"O","N","L","Y","_","M","A","T","C","H","I","N","G","_","F","I","E","L","D","S">>
\* 'MILLISECONDS'
e_MILLISECONDS ==
  <<"M","I","L","L","I","S","E","C","O","N","D","S">>
\* 'SECONDS'
e_SECONDS ==
  <<"S","E","C","O","N","D","S">>
\* 'MINUTES'
e_MINUTES ==
  <<"M","I","N","U","T","E","S">>
\* 'undefined'
s_undefined ==
  <<"u","n","d","e","f","i","n","e","d">>
\* 'null'
s_null ==
  <<"n","u","l","l">>
\* 'NaN'
s_NaN ==
  <<"N","a","N">>
\* 'true'
s_true ==
  <<"t","r","u","e">>
\* 'false'
s_false ==
  <<"f","a","l","s","e">>
\* '[object Object]'
s_objectObject ==
  <<"[","o","b","j","e","c","t"," ","O","b","j","e","c","t","]">>
\* 'Unknown tool: '
x_UnknownTool ==
  <<"U","n","k","n","o","w","n"," ","t","o","o","l",":"," ">>
\* 'Error executing '
x_ErrorExecuting ==
  <<"E","r","r","o","r"," ","e","x","e","c","u","t","i","n","g"," ">>
\* ': '
x_colon ==
  <<":"," ">>
\* 'Invalid parameters: '
x_InvalidParameters ==
  <<"I","n","v","a","l","i","d"," ","p","a","r","a","m","e","t","e","r","s",":"," ">>
\* 'MockServer Status: '
x_StatusHead ==
  <<"M","o","c","k","S","e","r","v","e","r"," ","S","t","a","t","u","s",":"," ">>
\* ' Connected'
x_Connected ==
  <<" ","C","o","n","n","e","c","t","e","d">>
\* ' Unreachable'
x_Unreachable ==
  <<" ","U","n","r","e","a","c","h","a","b","l","e">>
\* '\n\nConfiguration:\n- Host: '
x_Configuration ==
  <<"\n","\n","C","o","n","f","i","g","u","r","a","t","i","o","n",":","\n","-"," ","H","o","s","t",":"," ">>
\* '\n- Port: '
x_Port ==
  <<"\n","-"," ","P","o","r","t",":"," ">>
\* '\nVersion: '
x_Version ==
  <<"\n","V","e","r","s","i","o","n",":"," ">>
\* 'Verification PASSED.\n\nExpected: '
x_Passed ==
  <<"V","e","r","i","f","i","c","a","t","i","o","n"," ","P","A","S","S","E","D",".","\n","\n","E","x","p","e","c","t","e","d",":"," ">>
\* 'Verification FAILED.\n\nExpected: '
x_Failed ==
  <<"V","e","r","i","f","i","c","a","t","i","o","n"," ","F","A","I","L","E","D",".","\n","\n","E","x","p","e","c","t","e","d",":"," ">>
\* ' request(s)\nMatched: '
x_Matched ==
  <<" ","r","e","q","u","e","s","t","(","s",")","\n","M","a","t","c","h","e","d",":"," ">>
\* ' request(s)\n\nCriteria:\n- Method: '
x_Criteria ==
  <<" ","r","e","q","u","e","s","t","(","s",")","\n","\n","C","r","i","t","e","r","i","a",":","\n","-"," ","M","e","t","h","o","d",":"," ">>
\* '\n- Path: '
x_Path ==
  <<"\n","-"," ","P","a","t","h",":"," ">>
\* '\n\nDetails: '
x_Details ==
  <<"\n","\n","D","e","t","a","i","l","s",":"," ">>
\* 'exactly '
x_exactly ==
  <<"e","x","a","c","t","l","y"," ">>
\* 'between '
x_between ==
  <<"b","e","t","w","e","e","n"," ">>
\* ' and '
x_and ==
  <<" ","a","n","d"," ">>
\* 'at least '
x_atLeast ==
  <<"a","t"," ","l","e","a","s","t"," ">>
\* 'at most '
x_atMost ==
  <<"a","t"," ","m","o","s","t"," ">>
\* 'any number of'
x_anyNumber ==
  <<"a","n","y"," ","n","u","m","b","e","r"," ","o","f">>
\* 'at least 1'
x_atLeastOne ==
  <<"a","t"," ","l","e","a","s","t"," ","1">>
\* 'ANY'
x_ANY ==
  <<"A","N","Y">>
\* '/*'
x_anyPath ==
  <<"/","*">>
\* 'Cleared expectations and recorded requests matching:\n'
x_ClearedMatching ==
  <<"C","l","e","a","r","e","d"," ","e","x","p","e","c","t","a","t","i","o","n","s"," ","a","n","d"," ","r","e","c","o","r","d","e","d"," ","r","e","q","u","e","s","t","s"," ","m","a","t","c","h","i","n","g",":","\n">>
\* '- '
x_dash ==
  <<"-"," ">>
\* 'Method: '
x_Method ==
  <<"M","e","t","h","o","d",":"," ">>
\* 'Path: '
x_PathLabel ==
  <<"P","a","t","h",":"," ">>
\* '- All matching criteria provided'
x_AllCriteria ==
  <<"-"," ","A","l","l"," ","m","a","t","c","h","i","n","g"," ","c","r","i","t","e","r","i","a"," ","p","r","o","v","i","d","e","d">>
\* 'Cleared all expectations and recorded requests from MockServer.'
x_ClearedAll ==
  <<"C","l","e","a","r","e","d"," ","a","l","l"," ","e","x","p","e","c","t","a","t","i","o","n","s"," ","a","n","d"," ","r","e","c","o","r","d","e","d"," ","r","e","q","u","e","s","t","s"," ","f","r","o","m"," ","M","o","c","k","S","e","r","v","e","r",".">>
\* 'MockServer has been fully reset. All expectations and recorded requests have been cleared.'
x_Reset ==
  <<"M","o","c","k","S","e","r","v","e","r"," ","h","a","s"," ","b","e","e","n"," ","f","u","l","l","y"," ","r","e","s","e","t","."," ","A","l","l"," ","e","x","p","e","c","t","a","t","i","o","n","s"," ","a","n","d"," ","r","e","c","o","r","d","e","d"," ","r","e","q","u","e","s","t","s"," ","h","a","v","e"," ","b","e","e","n"," ","c","l","e","a","r","e","d",".">>
\* 'Expectation created successfully.\n\nDetails:\n- Method: '
x_Created ==
  <<"E","x","p","e","c","t","a","t","i","o","n"," ","c","r","e","a","t","e","d"," ","s","u","c","c","e","s","s","f","u","l","l","y",".","\n","\n","D","e","t","a","i","l","s",":","\n","-"," ","M","e","t","h","o","d",":"," ">>
\* '\n- Response Status: '
x_ResponseStatus ==
  <<"\n","-"," ","R","e","s","p","o","n","s","e"," ","S","t","a","t","u","s",":"," ">>
\* '\n- ID: '
x_ID ==
  <<"\n","-"," ","I","D",":"," ">>
\* 'No recorded requests found'
x_NoneFound ==
  <<"N","o"," ","r","e","c","o","r","d","e","d"," ","r","e","q","u","e","s","t","s"," ","f","o","u","n","d">>
\* ' matching criteria ('
x_matchingCriteria ==
  <<" ","m","a","t","c","h","i","n","g"," ","c","r","i","t","e","r","i","a"," ","(">>
\* 'Retrieved '
x_Retrieved ==
  <<"R","e","t","r","i","e","v","e","d"," ">>
\* ' recorded request(s):\n\n'
x_recorded ==
  <<" ","r","e","c","o","r","d","e","d"," ","r","e","q","u","e","s","t","(","s",")",":","\n","\n">>
\* 'UNKNOWN'
x_UNKNOWN ==
  <<"U","N","K","N","O","W","N">>
\* '   Timestamp: '
x_Timestamp ==
  <<" "," "," ","T","i","m","e","s","t","a","m","p",":"," ">>
\* '   Query: '
x_Query ==
  <<" "," "," ","Q","u","e","r","y",":"," ">>
\* "Cannot read properties of null (reading 'method')"
m_readMethodOfNull ==
  <<"C","a","n","n","o","t"," ","r","e","a","d"," ","p","r","o","p","e","r","t","i","e","s"," ","o","f"," ","n","u","l","l"," ","(","r","e","a","d","i","n","g"," ","'","m","e","t","h","o","d","'",")">>
\* 'v.join is not a function'
m_joinNotFunction ==
  <<"v",".","j","o","i","n"," ","i","s"," ","n","o","t"," ","a"," ","f","u","n","c","t","i","o","n">>
\* '[issues]'
z_issues ==
  <<"[","i","s","s","u","e","s","]">>
\* '[null]'
b_nullArray ==
  <<"[","n","u","l","l","]">>
\* '5.15.0'
v_5_15_0 ==
  <<"5",".","1","5",".","0">>
\* '[{"method":"GET","path":"/test","queryStringParameters":{"sort":["name","asc"]}}]'
b_recorded ==
  <<"[","{","\"","m","e","t","h","o","d","\"",":","\"","G","E","T","\"",",","\"","p","a","t","h","\"",":","\"","/","t","e","s","t","\"",",","\"","q","u","e","r","y","S","t","r","i","n","g","P","a","r","a","m","e","t","e","r","s","\"",":","{","\"","s","o","r","t","\"",":","[","\"","n","a","m","e","\"",",","\"","a","s","c","\"","]","}","}","]">>

\* ------------------------------------------------------- string operations
Digits == <<"0","1","2","3","4","5","6","7","8","9">>

IsDigit(ch) == \E d \in 1..10 : Digits[d] = ch

DigitVal(ch) == (CHOOSE d \in 1..10 : Digits[d] = ch) - 1

RECURSIVE NumToStr(_)
\* `${n}` for a non-negative integer n
NumToStr(n) ==
  IF n < 10 THEN <<Digits[n + 1]>>
  ELSE NumToStr(n \div 10) \o <<Digits[(n % 10) + 1]>>

\* pat occurs in s at position i
MatchAt(s, pat, i) ==
  /\ i >= 1
  /\ i + Len(pat) - 1 <= Len(s)
  /\ \A k \in 1..Len(pat) : s[i + k - 1] = pat[k]

\* String.prototype.includes (case-sensitive substring test)
Includes(s, pat) == \E i \in 1..(Len(s) + 1) : MatchAt(s, pat, i)

\* String.prototype.replace with a string pattern: first occurrence only
Replace(s, pat, rep) ==
  IF ~Includes(s, pat) THEN s
  ELSE LET i == CHOOSE j \in 1..(Len(s) + 1) :
                  /\ MatchAt(s, pat, j)
                  /\ \A k \in 1..(j - 1) : ~MatchAt(s, pat, k)
       IN SubSeq(s, 1, i - 1) \o rep \o SubSeq(s, i + Len(pat), Len(s))

RECURSIVE Split(_, _)
\* String.prototype.split with a one-character separator
Split(s, sep) ==
  IF \A i \in 1..Len(s) : s[i] # sep THEN <<s>>
  ELSE LET i == CHOOSE j \in 1..Len(s) :
                  /\ s[j] = sep
                  /\ \A k \in 1..(j - 1) : s[k] # sep
       IN <<SubSeq(s, 1, i - 1)>> \o Split(SubSeq(s, i + 1, Len(s)), sep)

\* -------------------------------------------------------- JavaScript values
JVal(tag, str, num, its, ks) ==
  [t |-> tag, s |-> str, n |-> num, items |-> its, keys |-> ks]

Undefined == JVal("undefined", << >>, 0, << >>, << >>)

JNull == JVal("null", << >>, 0, << >>, << >>)

NaN == JVal("NaN", << >>, 0, << >>, << >>)

JBool(b) == JVal(IF b THEN "true" ELSE "false", << >>, 0, << >>, << >>)

JNum(k) == JVal("num", << >>, k, << >>, << >>)

JStr(str) == JVal("str", str, 0, << >>, << >>)

JArr(its) == JVal("arr", << >>, 0, its, << >>)

JObj(ks, its) == JVal("obj", << >>, 0, its, ks)

EmptyObj == JObj(<< >>, << >>)

\* property read v.key (v?.key when v is null or undefined)
Get(v, key) ==
  IF v.t = "obj" /\ \E i \in 1..Len(v.keys) : v.keys[i] = key
  THEN v.items[CHOOSE i \in 1..Len(v.keys) : v.keys[i] = key]
  ELSE Undefined

\* a ?? b
Nullish(a, b) == IF a.t \in {"undefined", "null"} THEN b ELSE a

\* truthiness of a value used as a condition (if (x), x ? a : b)
Truthy(v) ==
  CASE v.t \in {"undefined", "null", "NaN", "false"} -> FALSE
    [] v.t = "num" -> v.n # 0
    [] v.t = "str" -> v.s # << >>
    [] OTHER -> TRUE

RECURSIVE DigitsEnd(_, _)
\* index just after the run of digits of s that starts at i
DigitsEnd(s, i) ==
  IF i <= Len(s) /\ IsDigit(s[i]) THEN DigitsEnd(s, i + 1) ELSE i

RECURSIVE DigitsVal(_)
DigitsVal(ds) ==
  IF ds = << >> THEN 0
  ELSE 10 * DigitsVal(SubSeq(ds, 1, Len(ds) - 1)) + DigitVal(ds[Len(ds)])

\* parseInt(v, 10) for an undefined or unsigned string argument
ParseInt(v) ==
  IF v.t # "str" THEN NaN
  ELSE LET e == DigitsEnd(v.s, 1)
       IN IF e = 1 THEN NaN ELSE JNum(DigitsVal(SubSeq(v.s, 1, e - 1)))

\* ------------------------------------------------------------------- JSON
\* JSON.parse and JSON.stringify over the JSON grammar without whitespace,
\* escapes, signs, fractions and exponents: objects, arrays, strings,
\* unsigned integers, true, false, null.
ParseFail == [ok |-> FALSE, val |-> Undefined, next |-> 0]

ParseOk(v, nxt) == [ok |-> TRUE, val |-> v, next |-> nxt]

ParseString(s, i) ==
  IF i > Len(s) \/ s[i] # "\"" THEN ParseFail
  ELSE IF \A j \in (i + 1)..Len(s) : s[j] # "\"" THEN ParseFail
  ELSE LET j == CHOOSE k \in (i + 1)..Len(s) :
                  /\ s[k] = "\""
                  /\ \A m \in (i + 1)..(k - 1) : s[m] # "\""
       IN ParseOk(JStr(SubSeq(s, i + 1, j - 1)), j + 1)

ParseNumber(s, i) ==
  IF s[i] = "0" THEN ParseOk(JNum(0), i + 1)
  ELSE LET e == DigitsEnd(s, i)
       IN ParseOk(JNum(DigitsVal(SubSeq(s, i, e - 1))), e)

ParseLiteral(s, i) ==
  CASE MatchAt(s, <<"t","r","u","e">>, i) -> ParseOk(JBool(TRUE), i + 4)
    [] MatchAt(s, <<"f","a","l","s","e">>, i) -> ParseOk(JBool(FALSE), i + 5)
    [] MatchAt(s, <<"n","u","l","l">>, i) -> ParseOk(JNull, i + 4)
    [] OTHER -> ParseFail

RECURSIVE ParseValue(_, _)
RECURSIVE ParseElems(_, _, _)
RECURSIVE ParseMembers(_, _, _, _)

ParseElems(s, i, acc) ==
  LET r == ParseValue(s, i)
  IN IF ~r.ok \/ r.next > Len(s) THEN ParseFail
     ELSE IF s[r.next] = "," THEN ParseElems(s, r.next + 1, Append(acc, r.val))
     ELSE IF s[r.next] = "]" THEN ParseOk(JArr(Append(acc, r.val)), r.next + 1)
     ELSE ParseFail

ParseMembers(s, i, ks, vs) ==
  LET k == ParseString(s, i)
  IN IF ~k.ok \/ k.next > Len(s) \/ s[k.next] # ":" THEN ParseFail
     ELSE LET r == ParseValue(s, k.next + 1)
          IN IF ~r.ok \/ r.next > Len(s) THEN ParseFail
             ELSE IF s[r.next] = ","
                  THEN ParseMembers(s, r.next + 1, Append(ks, k.val.s), Append(vs, r.val))
             ELSE IF s[r.next] = "}"
                  THEN ParseOk(JObj(Append(ks, k.val.s), Append(vs, r.val)), r.next + 1)
             ELSE ParseFail

ParseValue(s, i) ==
  IF i > Len(s) THEN ParseFail
  ELSE CASE s[i] = "{" ->
              IF i < Len(s) /\ s[i + 1] = "}" THEN ParseOk(EmptyObj, i + 2)
              ELSE ParseMembers(s, i + 1, << >>, << >>)
         [] s[i] = "[" ->
              IF i < Len(s) /\ s[i + 1] = "]" THEN ParseOk(JArr(<< >>), i + 2)
              ELSE ParseElems(s, i + 1, << >>)
         [] s[i] = "\"" -> ParseString(s, i)
         [] IsDigit(s[i]) -> ParseNumber(s, i)
         [] OTHER -> ParseLiteral(s, i)

\* JSON.parse(text): ok is FALSE where JSON.parse throws a SyntaxError
JSONParse(text) ==
  LET r == ParseValue(text, 1)
  IN IF r.ok /\ r.next = Len(text) + 1 THEN r ELSE ParseFail

RECURSIVE Stringify(_)
RECURSIVE StringifyElems(_)
RECURSIVE StringifyMembers(_, _, _)

StringifyElems(its) ==
  IF its = << >> THEN << >>
  ELSE LET h == IF Head(its).t = "undefined" THEN JNull ELSE Head(its)
       IN Stringify(h) \o
          (IF Len(its) > 1 THEN <<",">> ELSE << >>) \o
          StringifyElems(Tail(its))

\* members whose value is undefined are left out
StringifyMembers(ks, vs, first) ==
  IF ks = << >> THEN << >>
  ELSE IF Head(vs).t = "undefined" THEN StringifyMembers(Tail(ks), Tail(vs), first)
  ELSE (IF first THEN << >> ELSE <<",">>) \o
       <<"\"">> \o Head(ks) \o <<"\"", ":">> \o Stringify(Head(vs)) \o
       StringifyMembers(Tail(ks), Tail(vs), FALSE)

\* JSON.stringify(v) for a defined value v
Stringify(v) ==
  CASE v.t = "obj" -> <<"{">> \o StringifyMembers(v.keys, v.items, TRUE) \o <<"}">>
    [] v.t = "arr" -> <<"[">> \o StringifyElems(v.items) \o <<"]">>
    [] v.t = "str" -> <<"\"">> \o v.s \o <<"\"">>
    [] v.t = "num" -> NumToStr(v.n)
    [] v.t = "true" -> <<"t","r","u","e">>
    [] v.t = "false" -> <<"f","a","l","s","e">>
    [] OTHER -> <<"n","u","l","l">>

\* ------------------------------------------------------------- error types
ErrorCodes ==
  {"CONNECTION_FAILED", "CONNECTION_TIMEOUT", "INVALID_PARAMETERS",
   "MISSING_REQUIRED_FIELD", "MOCKSERVER_ERROR", "VERIFICATION_FAILED",
   "EXPECTATION_NOT_FOUND", "UNKNOWN_ERROR"}

\* new ToolError(code, message, details)
ToolError(c, msg, det) == [code |-> c, message |-> msg, details |-> det]

NoError == ToolError("", << >>, Undefined)

\* a settled promise: fulfilled with a value or rejected with a ToolError
Fulfilled(v) == [kind |-> "return", value |-> v, error |-> NoError]

Rejected(e) == [kind |-> "throw", value |-> Undefined, error |-> e]

Pending == [kind |-> "pending", value |-> Undefined, error |-> NoError]

\* a value thrown by the transport: an Error with name and message, or a
\* non-Error value whose String() form is kept in message
JsError(nm, msg) == [isError |-> TRUE, name |-> nm, message |-> msg]

NonError(str) == [isError |-> FALSE, name |-> "", message |-> str]

NoThrown == [isError |-> FALSE, name |-> "none", message |-> << >>]

NoResponse == [status |-> 0, body |-> << >>, read |-> FALSE]

NoRequest == [url |-> << >>, method |-> "", contentType |-> "", body |-> << >>]

\* ------------------------------------------------------------ input domains
\* constructor arguments {host, port, timeout?}
Configs ==
  { [host |-> s_localhost, port |-> 1080, timeout |-> Undefined],
    [host |-> s_localhost, port |-> 1, timeout |-> JNum(100)],
    [host |-> s_ipv6, port |-> 65535, timeout |-> Undefined] }

Matcher == JObj(<<k_path>>, <<JStr(s_test)>>)

Matchers == {Matcher, JObj(<<k_method, k_path>>, <<JStr(s_GET), JStr(s_test)>>)}

\* an expectation whose matcher has a parameter with two values
SortExpectation ==
  JObj(<<k_httpRequest>>,
       <<JObj(<<k_path, k_queryStringParameters>>,
              <<JStr(s_test),
                JObj(<<k_sort>>, <<JArr(<<JStr(s_name), JStr(s_asc)>>)>>)>>)>>)

Expectations ==
  { JObj(<<k_httpRequest>>, <<Matcher>>),
    SortExpectation,
    JObj(<<k_httpRequest, k_httpResponse>>,
         <<Matcher, JObj(<<k_statusCode, k_body>>, <<JNum(200), JStr(s_OK)>>)>>) }

\* count specs: any subset of exactly, atLeast, atMost
TimesSpecs ==
  { JObj(<<k_exactly>>, <<JNum(3)>>),
    JObj(<<k_exactly>>, <<JNum(0)>>),
    JObj(<<k_atLeast>>, <<JNum(2)>>),
    JObj(<<k_atMost>>, <<JNum(5)>>),
    JObj(<<k_atLeast, k_atMost>>, <<JNum(2), JNum(5)>>),
    JObj(<<k_exactly, k_atLeast>>, <<JNum(3), JNum(2)>>),
    EmptyObj }

\* response status codes the transport may deliver
Statuses == {100, 199, 200, 202, 299, 300, 400, 406, 500}

\* response body texts
Bodies ==
  {b_empty, b_notMatched, b_version, b_emptyArray, b_requests, b_null,
   b_html, b_truncated, b_number, m_networkDown}

\* values the transport may reject with
TransportErrors ==
  { JsError("TypeError", m_refused),
    JsError("Error", m_econn),
    JsError("TypeError", m_networkDown),
    JsError("AbortError", m_aborted),
    JsError("AbortError", m_abortedNetwork),
    JsError("TypeError", m_terminated),
    JsError("Error", m_NetworkCaps),
    JsError("Error", m_enotfound),
    NonError(m_thrownString),
    NonError(m_networkDown) }

\* the rejection fetch produces when its signal is aborted
\* values response.text() may reject with: the signal is aborted by the timer
\* alone, and the timer is cleared before the body is read, so a body read
\* does not reject with an AbortError
BodyErrors == {e \in TransportErrors : ~(e.isError /\ e.name = "AbortError")}

AbortRejection == JsError("AbortError", m_aborted)

\* ------------------------------------------------------------------- state
VARIABLES
  config,    \* the constructor argument
  overlap,   \* whether call sites call the client without awaiting one another
  earlier,   \* per call: the call sites whose call had settled when it was issued
  baseUrl,   \* this.baseUrl
  timeout,   \* this.timeout
  pc,        \* per call: "idle", "fetch" (awaiting fetch), "body" (awaiting text()), "settled"
  op,        \* per call: the operation and its arguments
  sent,      \* per call: the request handed to fetch
  nfetch,    \* per call: number of fetch invocations
  timer,     \* per call: "none", "armed", "cleared", "fired"
  resp,      \* per call: the response (status, body text, body read)
  thrown,    \* per call: the value the transport rejected with
  reqOut,    \* per call: how the request primitive settled
  outcome,   \* per call: how the public operation settled
  tool,      \* per call: the call-tool request that led to it, and its answer
  received   \* MockServer: how many requests matching the matcher it has recorded

vars ==
  <<config, overlap, earlier, baseUrl, timeout, pc, op, sent, nfetch, timer,
    resp, thrown, reqOut, outcome, tool, received>>

NoOp == [name |-> "none", arg |-> Undefined, times |-> Undefined]

\* the call-tool handler has not answered
NoResult == [done |-> FALSE, isError |-> FALSE, text |-> << >>]

\* no call-tool request: the client is called directly
NoTool ==
  [called |-> FALSE, name |-> << >>, input |-> Undefined, handled |-> Pending,
   result |-> NoResult]

\* constructor
BaseUrlOf(cfg) == s_scheme \o cfg.host \o <<":">> \o NumToStr(cfg.port)

DefaultTimeout == 5000

\* variant: the timeout given at construction is ignored
TimeoutOf_Fixed(cfg) ==
  DefaultTimeout

TimeoutOf(cfg) ==
  Nullish(cfg.timeout, JNum(DefaultTimeout)).n

\* the state of the call sites before any call
NoCalls ==
  /\ earlier = [c \in Calls |-> {}]
  /\ pc = [c \in Calls |-> "idle"]
  /\ op = [c \in Calls |-> NoOp]
  /\ sent = [c \in Calls |-> NoRequest]
  /\ nfetch = [c \in Calls |-> 0]
  /\ timer = [c \in Calls |-> "none"]
  /\ resp = [c \in Calls |-> NoResponse]
  /\ thrown = [c \in Calls |-> NoThrown]
  /\ reqOut = [c \in Calls |-> Pending]
  /\ outcome = [c \in Calls |-> Pending]
  /\ tool = [c \in Calls |-> NoTool]

Init ==
  /\ config \in Configs
  /\ overlap = FALSE
  /\ received = 0
  /\ baseUrl = BaseUrlOf(config)
  /\ timeout = TimeoutOf(config)
  /\ NoCalls

\* ------------------------------------------------------ request primitive
RECURSIVE QueryString(_, _)
\* new URLSearchParams(queryParams).toString() for unreserved characters
QueryString(ks, vs) ==
  IF ks = << >> THEN << >>
  ELSE Head(ks) \o <<"=">> \o Head(vs).s \o
       (IF Len(ks) > 1 THEN <<"&">> ELSE << >>) \o
       QueryString(Tail(ks), Tail(vs))

\* variant: the query parameters are not appended
RequestUrl_NoQuery(base, path, queryParams) == base \o path

\* url = `${this.baseUrl}${path}` plus `?${params}` when queryParams is given
RequestUrl(base, path, queryParams) ==
  IF Truthy(queryParams)
  THEN base \o path \o <<"?">> \o QueryString(queryParams.keys, queryParams.items)
  ELSE base \o path

\* the options handed to fetch
FetchRequest(base, path, method, body, queryParams) ==
  [url |-> RequestUrl(base, path, queryParams),
   method |-> method,
   contentType |-> "application/json",
   body |-> Stringify(body)]

\* response.ok
ResponseOk(status) == status >= 200 /\ status <= 299

\* variant: the status code is left out of the detail map
NonOkError_NoStatus(status, errorText) ==
  IF status = 406
  THEN ToolError("VERIFICATION_FAILED", s_VerificationFailed \o errorText, Undefined)
  ELSE ToolError("MOCKSERVER_ERROR", s_MockServerError \o errorText, Undefined)

\* variant: every response that is not ok is a verification failure
NonOkError_AllVerification(status, errorText) ==
  ToolError("VERIFICATION_FAILED", s_VerificationFailed \o errorText,
            JObj(<<k_statusCode>>, <<JNum(status)>>))

\* the ToolError thrown for a response that is not ok
NonOkError(status, errorText) ==
  IF status = 406
  THEN ToolError("VERIFICATION_FAILED", s_VerificationFailed \o errorText,
                 JObj(<<k_statusCode>>, <<JNum(status)>>))
  ELSE ToolError("MOCKSERVER_ERROR", s_MockServerError \o errorText,
                 JObj(<<k_statusCode>>, <<JNum(status)>>))

\* variant: an empty body yields null
OkResult_NullOnEmpty(text) ==
  IF text = << >> THEN JNull
  ELSE LET r == JSONParse(text)
       IN IF r.ok THEN r.val ELSE JStr(text)

\* the value returned for an ok response whose body text was read
OkResult(text) ==
  IF text = << >> THEN EmptyObj
  ELSE LET r == JSONParse(text)
       IN IF r.ok THEN r.val ELSE JStr(text)

\* variant: the "network" signature is not looked for
Classify_NoNetwork(error, base, tmo) ==
  IF error.isError /\ error.name = "AbortError"
  THEN ToolError("CONNECTION_TIMEOUT",
                 s_TimedOut \o NumToStr(tmo) \o s_ms,
                 JObj(<<k_host>>, <<JStr(base)>>))
  ELSE IF /\ error.isError
          /\ \/ Includes(error.message, s_ECONNREFUSED)
             \/ Includes(error.message, s_fetchFailed)
  THEN ToolError("CONNECTION_FAILED", s_CannotConnect \o base,
                 JObj(<<k_originalError>>, <<JStr(error.message)>>))
  ELSE ToolError("UNKNOWN_ERROR", s_Unexpected \o error.message, Undefined)

\* variant: the connection-failed message names the host without the scheme
Classify_NoScheme(error, base, tmo) ==
  IF error.isError /\ error.name = "AbortError"
  THEN ToolError("CONNECTION_TIMEOUT",
                 s_TimedOut \o NumToStr(tmo) \o s_ms,
                 JObj(<<k_host>>, <<JStr(base)>>))
  ELSE IF /\ error.isError
          /\ \/ Includes(error.message, s_ECONNREFUSED)
             \/ Includes(error.message, s_fetchFailed)
             \/ Includes(error.message, s_network)
  THEN ToolError("CONNECTION_FAILED",
                 s_CannotConnect \o Replace(base, s_scheme, << >>),
                 JObj(<<k_originalError>>, <<JStr(error.message)>>))
  ELSE ToolError("UNKNOWN_ERROR", s_Unexpected \o error.message, Undefined)

\* variant: the message signatures are tested before the error name
Classify_MessageFirst(error, base, tmo) ==
  IF /\ error.isError
     /\ \/ Includes(error.message, s_ECONNREFUSED)
        \/ Includes(error.message, s_fetchFailed)
        \/ Includes(error.message, s_network)
  THEN ToolError("CONNECTION_FAILED", s_CannotConnect \o base,
                 JObj(<<k_originalError>>, <<JStr(error.message)>>))
  ELSE IF error.isError /\ error.name = "AbortError"
  THEN ToolError("CONNECTION_TIMEOUT",
                 s_TimedOut \o NumToStr(tmo) \o s_ms,
                 JObj(<<k_host>>, <<JStr(base)>>))
  ELSE ToolError("UNKNOWN_ERROR", s_Unexpected \o error.message, Undefined)

\* variant: a value that matches no signature is rethrown as it is
Classify_Passthrough(error, base, tmo) ==
  IF error.isError /\ error.name = "AbortError"
  THEN ToolError("CONNECTION_TIMEOUT",
                 s_TimedOut \o NumToStr(tmo) \o s_ms,
                 JObj(<<k_host>>, <<JStr(base)>>))
  ELSE IF /\ error.isError
          /\ \/ Includes(error.message, s_ECONNREFUSED)
             \/ Includes(error.message, s_fetchFailed)
             \/ Includes(error.message, s_network)
  THEN ToolError("CONNECTION_FAILED", s_CannotConnect \o base,
                 JObj(<<k_originalError>>, <<JStr(error.message)>>))
  ELSE ToolError(error.name, error.message, Undefined)

\* variant: the message signatures are looked for in any thrown value
Classify_AnyThrown(error, base, tmo) ==
  IF error.isError /\ error.name = "AbortError"
  THEN ToolError("CONNECTION_TIMEOUT",
                 s_TimedOut \o NumToStr(tmo) \o s_ms,
                 JObj(<<k_host>>, <<JStr(base)>>))
  ELSE IF \/ Includes(error.message, s_ECONNREFUSED)
          \/ Includes(error.message, s_fetchFailed)
          \/ Includes(error.message, s_network)
  THEN ToolError("CONNECTION_FAILED", s_CannotConnect \o base,
                 JObj(<<k_originalError>>, <<JStr(error.message)>>))
  ELSE ToolError("UNKNOWN_ERROR", s_Unexpected \o error.message, Undefined)

\* the catch block for a thrown value that is not a ToolError
Classify(error, base, tmo) ==
  IF error.isError /\ error.name = "AbortError"
  THEN ToolError("CONNECTION_TIMEOUT",
                 s_TimedOut \o NumToStr(tmo) \o s_ms,
                 JObj(<<k_host>>, <<JStr(base)>>))
  ELSE IF /\ error.isError
          /\ \/ Includes(error.message, s_ECONNREFUSED)
             \/ Includes(error.message, s_fetchFailed)
             \/ Includes(error.message, s_network)
  THEN ToolError("CONNECTION_FAILED", s_CannotConnect \o base,
                 JObj(<<k_originalError>>, <<JStr(error.message)>>))
  ELSE ToolError("UNKNOWN_ERROR", s_Unexpected \o error.message, Undefined)

\* error instanceof ToolError
IsToolError(error) == "code" \in DOMAIN error

\* variant: a ToolError thrown inside the try is classified like any Error
CatchBlock_Reclassify(error, base, tmo) ==
  IF IsToolError(error)
  THEN Classify(JsError("ToolError", error.message), base, tmo)
  ELSE Classify(error, base, tmo)

\* the catch block of request: a ToolError is rethrown as it is, any other
\* thrown value is classified
CatchBlock(error, base, tmo) ==
  IF IsToolError(error) THEN error ELSE Classify(error, base, tmo)

\* ------------------------------------------- public operations, after await
\* variant: the catch block tests for the wrong error code
VerifyResult_WrongCode(times, r) ==
  IF r.kind = "return"
  THEN Fulfilled(JObj(<<k_success, k_matchedCount>>,
         <<JBool(TRUE),
           Nullish(Get(times, k_exactly), Nullish(Get(times, k_atLeast), JNum(1)))>>))
  ELSE IF r.error.code = "MOCKSERVER_ERROR"
  THEN Fulfilled(JObj(<<k_success, k_matchedCount, k_message>>,
         <<JBool(FALSE), JNum(0), JStr(r.error.message)>>))
  ELSE r

\* variant: atLeast takes precedence over exactly
VerifyResult_AtLeastFirst(times, r) ==
  IF r.kind = "return"
  THEN Fulfilled(JObj(<<k_success, k_matchedCount>>,
         <<JBool(TRUE),
           Nullish(Get(times, k_atLeast), Nullish(Get(times, k_exactly), JNum(1)))>>))
  ELSE IF r.error.code = "VERIFICATION_FAILED"
  THEN Fulfilled(JObj(<<k_success, k_matchedCount, k_message>>,
         <<JBool(FALSE), JNum(0), JStr(r.error.message)>>))
  ELSE r

\* verify: the code after `await this.request(...)` and its catch block
VerifyResult(times, r) ==
  IF r.kind = "return"
  THEN Fulfilled(JObj(<<k_success, k_matchedCount>>,
         <<JBool(TRUE),
           Nullish(Get(times, k_exactly), Nullish(Get(times, k_atLeast), JNum(1)))>>))
  ELSE IF r.error.code = "VERIFICATION_FAILED"
  THEN Fulfilled(JObj(<<k_success, k_matchedCount, k_message>>,
         <<JBool(FALSE), JNum(0), JStr(r.error.message)>>))
  ELSE r

\* variant: a failure is swallowed into the empty list
RetrieveResult_Swallow(r) ==
  Fulfilled(IF r.kind = "return" /\ r.value.t = "arr" THEN r.value ELSE JArr(<< >>))

\* variant: the response is returned as it is, array or not
RetrieveResult_NoFallback(r) == IF r.kind = "return" THEN Fulfilled(r.value) ELSE r

\* retrieveRecordedRequests: Array.isArray(response) ? response : []
RetrieveResult(r) ==
  IF r.kind = "return"
  THEN Fulfilled(IF r.value.t = "arr" THEN r.value ELSE JArr(<< >>))
  ELSE r

\* getStatus: [host, portStr] = baseUrl.replace('http://', '').split(':')
StatusHostPort(base) ==
  LET parts == Split(Replace(base, s_scheme, << >>), ":")
      portStr == IF Len(parts) >= 2 THEN JStr(parts[2]) ELSE Undefined
  IN [host |-> JStr(parts[1]), port |-> ParseInt(portStr)]

\* variant: only CONNECTION_FAILED is caught
StatusResult_FailedOnly(base, r) ==
  LET hp == StatusHostPort(base)
  IN IF r.kind = "return"
     THEN Fulfilled(JObj(<<k_host, k_port, k_reachable, k_version>>,
            <<hp.host, hp.port, JBool(TRUE), Get(r.value, k_version)>>))
     ELSE IF r.error.code = "CONNECTION_FAILED"
     THEN Fulfilled(JObj(<<k_host, k_port, k_reachable>>,
            <<hp.host, hp.port, JBool(FALSE)>>))
     ELSE r

\* variant: a response that is not an object is rejected
StatusResult_RejectMalformed(base, r) ==
  LET hp == StatusHostPort(base)
  IN IF r.kind = "return" /\ r.value.t = "obj"
     THEN Fulfilled(JObj(<<k_host, k_port, k_reachable, k_version>>,
            <<hp.host, hp.port, JBool(TRUE), Get(r.value, k_version)>>))
     ELSE IF r.kind = "return"
     THEN Rejected(ToolError("UNKNOWN_ERROR", s_Unexpected, Undefined))
     ELSE IF r.error.code \in {"CONNECTION_FAILED", "CONNECTION_TIMEOUT"}
     THEN Fulfilled(JObj(<<k_host, k_port, k_reachable>>,
            <<hp.host, hp.port, JBool(FALSE)>>))
     ELSE r

\* getStatus: the code after `await this.request(...)` and its catch block
StatusResult(base, r) ==
  LET hp == StatusHostPort(base)
  IN IF r.kind = "return"
     THEN Fulfilled(JObj(<<k_host, k_port, k_reachable, k_version>>,
            <<hp.host, hp.port, JBool(TRUE), Get(r.value, k_version)>>))
     ELSE IF r.error.code \in {"CONNECTION_FAILED", "CONNECTION_TIMEOUT"}
     THEN Fulfilled(JObj(<<k_host, k_port, k_reachable>>,
            <<hp.host, hp.port, JBool(FALSE)>>))
     ELSE r

\* createExpectation, clear, reset: `await this.request(...)` and nothing else
VoidResult(r) == IF r.kind = "return" THEN Fulfilled(Undefined) ELSE r

\* how operation o settles once its request primitive has settled with r
OpResult(o, base, r) ==
  CASE o.name = "verify" -> VerifyResult(o.times, r)
    [] o.name = "retrieveRecordedRequests" -> RetrieveResult(r)
    [] o.name = "getStatus" -> StatusResult(base, r)
    [] OTHER -> VoidResult(r)
\* --------------------------------------------------- tool layer: rendering
RECURSIVE JoinStrs(_, _)
\* Array.prototype.join over a sequence of strings
JoinStrs(ss, sep) ==
  IF ss = << >> THEN << >>
  ELSE IF Len(ss) = 1 THEN ss[1]
  ELSE ss[1] \o sep \o JoinStrs(Tail(ss), sep)

RECURSIVE TemplateStr(_)
\* `${v}`: the string a template literal renders a value as
TemplateStr(v) ==
  CASE v.t = "str" -> v.s
    [] v.t = "num" -> NumToStr(v.n)
    [] v.t = "NaN" -> s_NaN
    [] v.t = "undefined" -> s_undefined
    [] v.t = "null" -> s_null
    [] v.t = "true" -> s_true
    [] v.t = "false" -> s_false
    [] v.t = "arr" ->
         JoinStrs([i \in 1..Len(v.items) |->
                     IF v.items[i].t \in {"null", "undefined"} THEN << >>
                     ELSE TemplateStr(v.items[i])], <<",">>)
    [] OTHER -> s_objectObject

\* key in v
HasOwn(v, key) == v.t = "obj" /\ \E i \in 1..Len(v.keys) : v.keys[i] = key

RECURSIVE PickKeys(_, _)
PickKeys(v, ks) ==
  IF ks = << >> THEN << >>
  ELSE (IF HasOwn(v, Head(ks)) THEN <<Head(ks)>> ELSE << >>) \o PickKeys(v, Tail(ks))

\* the output of a z.object parse: the members the shape names, in the
\* shape's order; members the shape does not name are stripped
Pick(v, ks) ==
  LET kept == PickKeys(v, ks)
  IN JObj(kept, [i \in 1..Len(kept) |-> Get(v, kept[i])])

\* v with the member key, when present, replaced by val
Put(v, key, val) ==
  JObj(v.keys, [i \in 1..Len(v.keys) |-> IF v.keys[i] = key THEN val ELSE v.items[i]])

\* ----------------------------------------------------- tool layer: schemas
IsStr(v) == v.t = "str"

IsNum(v) == v.t = "num"

IsBool(v) == v.t \in {"true", "false"}

IsObj(v) == v.t = "obj"

Absent(v) == v.t = "undefined"

InEnum(v, options) == IsStr(v) /\ v.s \in options

\* z.record(z.array(z.string()))
IsStringArrayRecord(v) ==
  /\ IsObj(v)
  /\ \A i \in 1..Len(v.items) :
       /\ v.items[i].t = "arr"
       /\ \A j \in 1..Len(v.items[i].items) : IsStr(v.items[i].items[j])

BodyMatcherKeys == <<k_type, k_value, k_matchType>>

ValidBodyMatcher(v) ==
  /\ IsObj(v)
  /\ InEnum(Get(v, k_type), {e_STRING, e_JSON, e_REGEX, e_XPATH, e_JSON_PATH})
  /\ IsStr(Get(v, k_value))
  /\ \/ Absent(Get(v, k_matchType))
     \/ InEnum(Get(v, k_matchType), {e_STRICT, e_ONLY_MATCHING_FIELDS})

RequestMatcherKeys ==
  <<k_method, k_path, k_pathParameters, k_queryStringParameters, k_headers, k_body>>

ValidRequestMatcher(v) ==
  /\ IsObj(v)
  /\ Absent(Get(v, k_method)) \/ IsStr(Get(v, k_method))
  /\ Absent(Get(v, k_path)) \/ IsStr(Get(v, k_path))
  /\ Absent(Get(v, k_pathParameters)) \/ IsStringArrayRecord(Get(v, k_pathParameters))
  /\ Absent(Get(v, k_queryStringParameters))
       \/ IsStringArrayRecord(Get(v, k_queryStringParameters))
  /\ Absent(Get(v, k_headers)) \/ IsStringArrayRecord(Get(v, k_headers))
  /\ Absent(Get(v, k_body)) \/ ValidBodyMatcher(Get(v, k_body))

ParsedRequestMatcher(v) ==
  LET p == Pick(v, RequestMatcherKeys)
  IN IF HasOwn(p, k_body) THEN Put(p, k_body, Pick(Get(p, k_body), BodyMatcherKeys))
     ELSE p

TimesKeys == <<k_atLeast, k_atMost, k_exactly>>

ValidTimes(v) ==
  /\ IsObj(v)
  /\ Absent(Get(v, k_atLeast)) \/ IsNum(Get(v, k_atLeast))
  /\ Absent(Get(v, k_atMost)) \/ IsNum(Get(v, k_atMost))
  /\ Absent(Get(v, k_exactly)) \/ IsNum(Get(v, k_exactly))

DelayKeys == <<k_timeUnit, k_value>>

ValidDelay(v) ==
  /\ IsObj(v)
  /\ InEnum(Get(v, k_timeUnit), {e_MILLISECONDS, e_SECONDS})
  /\ IsNum(Get(v, k_value))

HttpResponseKeys == <<k_statusCode, k_headers, k_body, k_delay>>

ValidHttpResponse(v) ==
  /\ IsObj(v)
  /\ Absent(Get(v, k_statusCode)) \/ IsNum(Get(v, k_statusCode))
  /\ Absent(Get(v, k_headers)) \/ IsStringArrayRecord(Get(v, k_headers))
  /\ Absent(Get(v, k_body)) \/ IsStr(Get(v, k_body)) \/ IsObj(Get(v, k_body))
  /\ Absent(Get(v, k_delay)) \/ ValidDelay(Get(v, k_delay))

ParsedHttpResponse(v) ==
  LET p == Pick(v, HttpResponseKeys)
  IN IF HasOwn(p, k_delay) THEN Put(p, k_delay, Pick(Get(p, k_delay), DelayKeys))
     ELSE p

ExpectationTimesKeys == <<k_remainingTimes, k_unlimited>>

ValidExpectationTimes(v) ==
  /\ IsObj(v)
  /\ IsNum(Get(v, k_remainingTimes))
  /\ IsBool(Get(v, k_unlimited))

TimeToLiveKeys == <<k_timeUnit, k_timeToLive>>

ValidTimeToLive(v) ==
  /\ IsObj(v)
  /\ InEnum(Get(v, k_timeUnit), {e_MILLISECONDS, e_SECONDS, e_MINUTES})
  /\ IsNum(Get(v, k_timeToLive))

CreateExpectationKeys == <<k_httpRequest, k_httpResponse, k_times, k_timeToLive, k_id>>

\* CreateExpectationInputSchema.safeParse(input).success
ValidCreateExpectationInput(v) ==
  /\ IsObj(v)
  /\ ValidRequestMatcher(Get(v, k_httpRequest))
  /\ Absent(Get(v, k_httpResponse)) \/ ValidHttpResponse(Get(v, k_httpResponse))
  /\ Absent(Get(v, k_times)) \/ ValidExpectationTimes(Get(v, k_times))
  /\ Absent(Get(v, k_timeToLive)) \/ ValidTimeToLive(Get(v, k_timeToLive))
  /\ Absent(Get(v, k_id)) \/ IsStr(Get(v, k_id))

\* parsed.data of CreateExpectationInputSchema
ParsedCreateExpectationInput(v) ==
  LET p0 == Pick(v, CreateExpectationKeys)
      p1 == Put(p0, k_httpRequest, ParsedRequestMatcher(Get(p0, k_httpRequest)))
      p2 == IF HasOwn(p1, k_httpResponse)
            THEN Put(p1, k_httpResponse, ParsedHttpResponse(Get(p1, k_httpResponse)))
            ELSE p1
      p3 == IF HasOwn(p2, k_times)
            THEN Put(p2, k_times, Pick(Get(p2, k_times), ExpectationTimesKeys))
            ELSE p2
  IN IF HasOwn(p3, k_timeToLive)
     THEN Put(p3, k_timeToLive, Pick(Get(p3, k_timeToLive), TimeToLiveKeys))
     ELSE p3

\* VerifyInputSchema.safeParse(input).success
ValidVerifyInput(v) ==
  /\ IsObj(v)
  /\ ValidRequestMatcher(Get(v, k_httpRequest))
  /\ Absent(Get(v, k_times)) \/ ValidTimes(Get(v, k_times))

\* parsed.data of VerifyInputSchema
ParsedVerifyInput(v) ==
  LET p0 == Pick(v, <<k_httpRequest, k_times>>)
      p1 == Put(p0, k_httpRequest, ParsedRequestMatcher(Get(p0, k_httpRequest)))
  IN IF HasOwn(p1, k_times) THEN Put(p1, k_times, Pick(Get(p1, k_times), TimesKeys))
     ELSE p1

\* ClearInputSchema and RetrieveRequestsInputSchema: .safeParse(input).success
ValidMatcherInput(v) ==
  /\ IsObj(v)
  /\ Absent(Get(v, k_httpRequest)) \/ ValidRequestMatcher(Get(v, k_httpRequest))

\* parsed.data of ClearInputSchema and RetrieveRequestsInputSchema
ParsedMatcherInput(v) ==
  LET p0 == Pick(v, <<k_httpRequest>>)
  IN IF HasOwn(p0, k_httpRequest)
     THEN Put(p0, k_httpRequest, ParsedRequestMatcher(Get(p0, k_httpRequest)))
     ELSE p0

\* an Error that is not a ToolError: it has a message and no code
UntypedError(msg) == ToolError("", msg, Undefined)

\* the text zod renders its issue list as; the rendering is the library's
ZodMessage(input) == z_issues

\* new ToolError('INVALID_PARAMETERS', `Invalid parameters: ...`, {errors})
InvalidParameters(input) ==
  ToolError("INVALID_PARAMETERS", x_InvalidParameters \o ZodMessage(input),
            JObj(<<k_errors>>, <<JArr(<<JStr(ZodMessage(input))>>)>>))

\* ---------------------------------------------------- tool layer: handlers
\* handleCreateExpectation after `await client.createExpectation(expectation)`
CreateExpectationText(expectation) ==
  LET id == Get(expectation, k_id)
      method == Nullish(Get(Get(expectation, k_httpRequest), k_method), JStr(x_ANY))
      path == Nullish(Get(Get(expectation, k_httpRequest), k_path), JStr(x_anyPath))
      statusCode == Nullish(Get(Get(expectation, k_httpResponse), k_statusCode), JNum(200))
  IN x_Created \o TemplateStr(method) \o x_Path \o TemplateStr(path) \o
     x_ResponseStatus \o TemplateStr(statusCode) \o
     (IF Truthy(id) THEN x_ID \o TemplateStr(id) ELSE << >>)

\* handleVerify: timesDescription
TimesDescription(times) ==
  IF ~Truthy(times) THEN x_atLeastOne
  ELSE IF ~Absent(Get(times, k_exactly))
  THEN x_exactly \o TemplateStr(Get(times, k_exactly))
  ELSE IF ~Absent(Get(times, k_atLeast)) /\ ~Absent(Get(times, k_atMost))
  THEN x_between \o TemplateStr(Get(times, k_atLeast)) \o x_and \o
       TemplateStr(Get(times, k_atMost))
  ELSE IF ~Absent(Get(times, k_atLeast))
  THEN x_atLeast \o TemplateStr(Get(times, k_atLeast))
  ELSE IF ~Absent(Get(times, k_atMost))
  THEN x_atMost \o TemplateStr(Get(times, k_atMost))
  ELSE x_anyNumber

\* handleVerify after `await client.verify(httpRequest, times)`
VerifyText(data, result) ==
  LET httpRequest == Get(data, k_httpRequest)
      criteria == x_Criteria \o
                  TemplateStr(Nullish(Get(httpRequest, k_method), JStr(x_ANY))) \o
                  x_Path \o
                  TemplateStr(Nullish(Get(httpRequest, k_path), JStr(x_anyPath)))
      counts == TimesDescription(Get(data, k_times)) \o x_Matched \o
                TemplateStr(Get(result, k_matchedCount))
  IN IF Truthy(Get(result, k_success))
     THEN x_Passed \o counts \o criteria
     ELSE x_Failed \o counts \o criteria \o
          (IF Truthy(Get(result, k_message))
           THEN x_Details \o TemplateStr(Get(result, k_message)) ELSE << >>)

\* handleClear after `await client.clear(httpRequest)`
ClearText(data) ==
  LET httpRequest == Get(data, k_httpRequest)
      criteria ==
        (IF Truthy(Get(httpRequest, k_method))
         THEN <<x_dash \o x_Method \o TemplateStr(Get(httpRequest, k_method))>>
         ELSE << >>) \o
        (IF Truthy(Get(httpRequest, k_path))
         THEN <<x_dash \o x_PathLabel \o TemplateStr(Get(httpRequest, k_path))>>
         ELSE << >>)
  IN IF Truthy(httpRequest)
     THEN x_ClearedMatching \o
          (IF Len(criteria) > 0 THEN JoinStrs(criteria, <<"\n">>) ELSE x_AllCriteria)
     ELSE x_ClearedAll

\* the entries of a value as Object.entries lists them
EntryCount(v) == IF v.t \in {"obj", "arr"} THEN Len(v.items) ELSE Len(v.s)

EntryKey(v, i) == IF v.t = "obj" THEN v.keys[i] ELSE NumToStr(i - 1)

EntryValue(v, i) == IF v.t \in {"obj", "arr"} THEN v.items[i] ELSE JStr(<<v.s[i]>>)

\* req.method or v.join(',') raises a TypeError for this recorded request
SummaryRaises(req) ==
  \/ req.t \in {"null", "undefined"}
  \/ LET q == Get(req, k_queryStringParameters)
     IN Truthy(q) /\ \E i \in 1..EntryCount(q) : EntryValue(q, i).t # "arr"

SummaryError(req) ==
  IF req.t \in {"null", "undefined"} THEN m_readMethodOfNull ELSE m_joinNotFunction

\* handleRetrieveRequests: one entry of requestSummaries
RequestSummary(req, index) ==
  LET q == Get(req, k_queryStringParameters)
      params == JoinStrs([i \in 1..EntryCount(q) |->
                            EntryKey(q, i) \o <<"=">> \o TemplateStr(EntryValue(q, i))],
                         <<"&">>)
      parts ==
        <<NumToStr(index) \o <<".", " ">> \o
          TemplateStr(Nullish(Get(req, k_method), JStr(x_UNKNOWN))) \o <<" ">> \o
          TemplateStr(Nullish(Get(req, k_path), JStr(<<"/">>)))>> \o
        (IF Truthy(Get(req, k_timestamp))
         THEN <<x_Timestamp \o TemplateStr(Get(req, k_timestamp))>> ELSE << >>) \o
        (IF Truthy(q) /\ params # << >> THEN <<x_Query \o params>> ELSE << >>)
  IN JoinStrs(parts, <<"\n">>)

\* handleRetrieveRequests after `await client.retrieveRecordedRequests(...)`
RetrieveResultOfHandler(data, requests) ==
  LET httpRequest == Get(data, k_httpRequest)
      n == Len(requests.items)
  IN IF n = 0
     THEN Fulfilled(JStr(
            x_NoneFound \o
            (IF Truthy(httpRequest)
             THEN x_matchingCriteria \o
                  TemplateStr(Nullish(Get(httpRequest, k_method), JStr(x_ANY))) \o
                  <<" ">> \o
                  TemplateStr(Nullish(Get(httpRequest, k_path), JStr(x_anyPath))) \o
                  <<")">>
             ELSE << >>) \o <<".">>))
     ELSE IF \E i \in 1..n : SummaryRaises(requests.items[i])
     THEN Rejected(UntypedError(SummaryError(
            requests.items[CHOOSE i \in 1..n :
                             /\ SummaryRaises(requests.items[i])
                             /\ \A j \in 1..(i - 1) : ~SummaryRaises(requests.items[j])])))
     ELSE Fulfilled(JStr(
            x_Retrieved \o NumToStr(n) \o x_recorded \o
            JoinStrs([i \in 1..n |-> RequestSummary(requests.items[i], i)],
                     <<"\n", "\n">>)))

\* handleStatus after `await client.getStatus()`
StatusText(status) ==
  x_StatusHead \o
  (IF Truthy(Get(status, k_reachable))
   THEN <<"U+2713">> \o x_Connected ELSE <<"U+2717">> \o x_Unreachable) \o
  x_Configuration \o TemplateStr(Get(status, k_host)) \o
  x_Port \o TemplateStr(Get(status, k_port)) \o
  (IF Truthy(Get(status, k_version))
   THEN x_Version \o TemplateStr(Get(status, k_version)) ELSE << >>)

ToolNames ==
  {n_createExpectation, n_verify, n_clear, n_reset, n_retrieveRequests, n_status}

\* getToolHandler(name): whether a tool with this name is registered
HasToolHandler(name) == name \in ToolNames

\* the schema check a handler starts with; handleReset and handleStatus
\* ignore their input
ValidToolInput(name, input) ==
  CASE name = n_createExpectation -> ValidCreateExpectationInput(input)
    [] name = n_verify -> ValidVerifyInput(input)
    [] name \in {n_clear, n_retrieveRequests} -> ValidMatcherInput(input)
    [] OTHER -> TRUE

\* parsed.data
ParsedToolInput(name, input) ==
  CASE name = n_createExpectation -> ParsedCreateExpectationInput(input)
    [] name = n_verify -> ParsedVerifyInput(input)
    [] name \in {n_clear, n_retrieveRequests} -> ParsedMatcherInput(input)
    [] OTHER -> EmptyObj

\* a handler from the point where the client operation it awaits has settled
\* with r: a failure of the operation leaves the handler as it is
HandlerResult(name, data, r) ==
  IF r.kind = "throw" THEN r
  ELSE CASE name = n_createExpectation -> Fulfilled(JStr(CreateExpectationText(data)))
         [] name = n_verify -> Fulfilled(JStr(VerifyText(data, r.value)))
         [] name = n_clear -> Fulfilled(JStr(ClearText(data)))
         [] name = n_reset -> Fulfilled(JStr(x_Reset))
         [] name = n_retrieveRequests -> RetrieveResultOfHandler(data, r.value)
         [] OTHER -> Fulfilled(JStr(StatusText(r.value)))

\* what the call-tool handler answers
ToolResultOf(isErr, txt) == [done |-> TRUE, isError |-> isErr, text |-> txt]

UnknownToolResult(name) == ToolResultOf(TRUE, x_UnknownTool \o name)

\* variant: only a ToolError is turned into an answer, any other failure
\* leaves the call-tool handler
CallToolResult_TypedOnly(name, h) ==
  IF h.kind = "throw" /\ h.error.code = "" THEN NoResult
  ELSE IF h.kind = "throw"
  THEN ToolResultOf(TRUE, x_ErrorExecuting \o name \o x_colon \o h.error.message)
  ELSE ToolResultOf(FALSE, h.value.s)

\* `try { return await handler(client, args) } catch (error) {...}`
CallToolResult(name, h) ==
  IF h.kind = "throw"
  THEN ToolResultOf(TRUE, x_ErrorExecuting \o name \o x_colon \o h.error.message)
  ELSE ToolResultOf(FALSE, h.value.s)

\* ----------------------------------------------------------------- actions
\* no call is in flight: the caller awaits an operation before it calls the
\* next one, as every call site of the client does
NoneInFlight == \A d \in Calls : pc[d] = "idle"

\* a call site may call the client: at any time when call sites overlap,
\* otherwise once the previous operation has been awaited
MayCall == overlap \/ NoneInFlight

\* this.request(path, 'PUT', body, queryParams) up to `await fetch(...)`:
\* the timeout clock is started and the request is handed to the transport
StartRequest(c, o, path, body, queryParams) ==
  /\ pc[c] = "idle"
  /\ pc' = [pc EXCEPT ![c] = "fetch"]
  /\ op' = [op EXCEPT ![c] = o]
  /\ sent' = [sent EXCEPT ![c] = FetchRequest(baseUrl, path, "PUT", body, queryParams)]
  /\ nfetch' = [nfetch EXCEPT ![c] = @ + 1]
  /\ timer' = [timer EXCEPT ![c] = "armed"]
  /\ resp' = [resp EXCEPT ![c] = NoResponse]
  /\ thrown' = [thrown EXCEPT ![c] = NoThrown]
  /\ reqOut' = [reqOut EXCEPT ![c] = Pending]
  /\ outcome' = [outcome EXCEPT ![c] = Pending]
  /\ earlier' = [earlier EXCEPT ![c] = {d \in Calls : pc[d] = "settled"}]
  /\ UNCHANGED <<config, overlap, received, baseUrl, timeout, tool>>

createExpectation(c, expectation) ==
  /\ MayCall
  /\ StartRequest(c, [name |-> "createExpectation", arg |-> expectation, times |-> Undefined],
                  p_expectation, expectation, Undefined)

verify(c, request, times) ==
  LET body == IF Truthy(times)
              THEN JObj(<<k_httpRequest, k_times>>, <<request, times>>)
              ELSE JObj(<<k_httpRequest>>, <<request>>)
  IN /\ MayCall
     /\ StartRequest(c, [name |-> "verify", arg |-> request, times |-> times],
                     p_verify, body, Undefined)

clear(c, request) ==
  LET body == IF Truthy(request) THEN JObj(<<k_httpRequest>>, <<request>>) ELSE EmptyObj
  IN /\ MayCall
     /\ StartRequest(c, [name |-> "clear", arg |-> request, times |-> Undefined],
                     p_clear, body, Undefined)

reset(c) ==
  /\ MayCall
  /\ StartRequest(c, [name |-> "reset", arg |-> Undefined, times |-> Undefined],
                  p_reset, EmptyObj, Undefined)

retrieveRecordedRequests(c, request) ==
  LET body == IF Truthy(request) THEN JObj(<<k_httpRequest>>, <<request>>) ELSE EmptyObj
  IN /\ MayCall
     /\ StartRequest(c, [name |-> "retrieveRecordedRequests", arg |-> request, times |-> Undefined],
                     p_retrieve, body, JObj(<<k_type>>, <<JStr(s_REQUESTS)>>))

getStatus(c) ==
  /\ MayCall
  /\ StartRequest(c, [name |-> "getStatus", arg |-> Undefined, times |-> Undefined],
                  p_status, EmptyObj, Undefined)

\* the handler that awaited the operation resumes with its outcome o, and the
\* call-tool handler answers; a direct call of the client has no handler
Answer(t, o) ==
  IF ~t.called THEN t
  ELSE LET h == HandlerResult(t.name, ParsedToolInput(t.name, t.input), o)
       IN [t EXCEPT !.handled = h, !.result = CallToolResult(t.name, h)]

\* variant: the result of an earlier call of the same operation is reused
Settle_Cached(c, r) ==
  /\ pc' = [pc EXCEPT ![c] = "settled"]
  /\ reqOut' = [reqOut EXCEPT ![c] = r]
  /\ outcome' = [outcome EXCEPT ![c] =
                   IF \E d \in earlier[c] : op[d] = op[c]
                   THEN outcome[CHOOSE d \in earlier[c] : op[d] = op[c]]
                   ELSE OpResult(op[c], baseUrl, r)]
  /\ tool' = [tool EXCEPT ![c] = Answer(@, OpResult(op[c], baseUrl, r))]

\* the request primitive settles with r and the operation's continuation runs
Settle(c, r) ==
  /\ pc' = [pc EXCEPT ![c] = "settled"]
  /\ reqOut' = [reqOut EXCEPT ![c] = r]
  /\ outcome' = [outcome EXCEPT ![c] = OpResult(op[c], baseUrl, r)]
  /\ tool' = [tool EXCEPT ![c] = Answer(@, OpResult(op[c], baseUrl, r))]

\* clearTimeout(timeoutId): no effect on a timer that already fired
ClearTimeout(t) == IF t = "armed" THEN "cleared" ELSE t

\* variant: the timer is left running when fetch resolves
FetchResolve_KeepTimer(c, status) ==
  /\ pc[c] = "fetch"
  /\ pc' = [pc EXCEPT ![c] = "body"]
  /\ resp' = [resp EXCEPT ![c] = [status |-> status, body |-> << >>, read |-> FALSE]]
  /\ UNCHANGED <<config, overlap, received, earlier, baseUrl, timeout, op, sent, nfetch,
                 timer, thrown, reqOut, outcome, tool>>

\* fetch resolves with a response: clearTimeout, then the body is awaited
FetchResolve(c, status) ==
  /\ pc[c] = "fetch"
  /\ pc' = [pc EXCEPT ![c] = "body"]
  /\ timer' = [timer EXCEPT ![c] = ClearTimeout(@)]
  /\ resp' = [resp EXCEPT ![c] = [status |-> status, body |-> << >>, read |-> FALSE]]
  /\ UNCHANGED <<config, overlap, received, earlier, baseUrl, timeout, op, sent, nfetch,
                 thrown, reqOut, outcome, tool>>

\* variant: a rejected fetch is issued once more before it is classified
FetchReject_Retry(c, error) ==
  /\ pc[c] = "fetch"
  /\ IF nfetch[c] = 1
     THEN /\ nfetch' = [nfetch EXCEPT ![c] = @ + 1]
          /\ timer' = [timer EXCEPT ![c] = "armed"]
          /\ UNCHANGED <<pc, thrown, reqOut, outcome, tool>>
     ELSE /\ timer' = [timer EXCEPT ![c] = ClearTimeout(@)]
          /\ thrown' = [thrown EXCEPT ![c] = error]
          /\ Settle(c, Rejected(CatchBlock(error, baseUrl, timeout)))
          /\ UNCHANGED nfetch
  /\ UNCHANGED <<config, overlap, received, earlier, baseUrl, timeout, op, sent, resp>>

\* fetch rejects with a value: the catch block classifies it
FetchReject(c, error) ==
  /\ pc[c] = "fetch"
  /\ timer' = [timer EXCEPT ![c] = ClearTimeout(@)]
  /\ thrown' = [thrown EXCEPT ![c] = error]
  /\ Settle(c, Rejected(CatchBlock(error, baseUrl, timeout)))
  /\ UNCHANGED <<config, overlap, received, earlier, baseUrl, timeout, op, sent, nfetch, resp>>

\* variant: one controller shared by the client, so that an expiry aborts
\* every fetch that is pending
TimerFire_SharedController(c) ==
  /\ pc[c] = "fetch"
  /\ timer[c] = "armed"
  /\ LET hit == {d \in Calls : pc[d] = "fetch"}
         r == Rejected(CatchBlock(AbortRejection, baseUrl, timeout))
     IN /\ timer' = [d \in Calls |-> IF d \in hit THEN "fired" ELSE timer[d]]
        /\ thrown' = [d \in Calls |-> IF d \in hit THEN AbortRejection ELSE thrown[d]]
        /\ pc' = [d \in Calls |-> IF d \in hit THEN "settled" ELSE pc[d]]
        /\ reqOut' = [d \in Calls |-> IF d \in hit THEN r ELSE reqOut[d]]
        /\ outcome' = [d \in Calls |->
                         IF d \in hit THEN OpResult(op[d], baseUrl, r) ELSE outcome[d]]
        /\ tool' = [d \in Calls |->
                      IF d \in hit THEN Answer(tool[d], OpResult(op[d], baseUrl, r))
                      ELSE tool[d]]
  /\ UNCHANGED <<config, overlap, received, earlier, baseUrl, timeout, op, sent, nfetch, resp>>

\* variant: the clock also expires after the response status arrived
TimerFire_AfterResponse(c) ==
  /\ pc[c] \in {"fetch", "body"}
  /\ timer[c] \in {"armed", "cleared"}
  /\ timer' = [timer EXCEPT ![c] = "fired"]
  /\ thrown' = [thrown EXCEPT ![c] = AbortRejection]
  /\ Settle(c, Rejected(CatchBlock(AbortRejection, baseUrl, timeout)))
  /\ UNCHANGED <<config, overlap, received, earlier, baseUrl, timeout, op, sent, nfetch, resp>>

\* the timeout clock expires while fetch is pending: controller.abort()
\* makes fetch reject with an AbortError, which the catch block classifies
TimerFire(c) ==
  /\ pc[c] = "fetch"
  /\ timer[c] = "armed"
  /\ timer' = [timer EXCEPT ![c] = "fired"]
  /\ thrown' = [thrown EXCEPT ![c] = AbortRejection]
  /\ Settle(c, Rejected(CatchBlock(AbortRejection, baseUrl, timeout)))
  /\ UNCHANGED <<config, overlap, received, earlier, baseUrl, timeout, op, sent, nfetch, resp>>

\* response.text() resolves with the body text
BodyText(c, text) ==
  /\ pc[c] = "body"
  /\ resp' = [resp EXCEPT ![c] = [status |-> @.status, body |-> text, read |-> TRUE]]
  /\ timer' = [timer EXCEPT ![c] =
                 IF ResponseOk(resp[c].status) THEN @ ELSE ClearTimeout(@)]
  /\ Settle(c, IF ResponseOk(resp[c].status)
               THEN Fulfilled(OkResult(text))
               ELSE Rejected(CatchBlock(NonOkError(resp[c].status, text), baseUrl, timeout)))
  /\ UNCHANGED <<config, overlap, received, earlier, baseUrl, timeout, op, sent, nfetch, thrown>>

\* response.text() rejects: for a response that is not ok the rejection is
\* replaced by the placeholder text and never reaches the catch block; for an
\* ok response the catch block classifies it
BodyFail(c, error) ==
  /\ pc[c] = "body"
  /\ thrown' = [thrown EXCEPT ![c] = IF ResponseOk(resp[c].status) THEN error ELSE @]
  /\ timer' = [timer EXCEPT ![c] = ClearTimeout(@)]
  /\ Settle(c, IF ResponseOk(resp[c].status)
               THEN Rejected(CatchBlock(error, baseUrl, timeout))
               ELSE Rejected(CatchBlock(NonOkError(resp[c].status, s_UnknownError),
                                       baseUrl, timeout)))
  /\ UNCHANGED <<config, overlap, received, earlier, baseUrl, timeout, op, sent, nfetch, resp>>

\* the caller takes the result; the call site may issue another operation
Return(c) ==
  /\ pc[c] = "settled"
  /\ pc' = [pc EXCEPT ![c] = "idle"]
  /\ op' = [op EXCEPT ![c] = NoOp]
  /\ sent' = [sent EXCEPT ![c] = NoRequest]
  /\ nfetch' = [nfetch EXCEPT ![c] = 0]
  /\ timer' = [timer EXCEPT ![c] = "none"]
  /\ resp' = [resp EXCEPT ![c] = NoResponse]
  /\ thrown' = [thrown EXCEPT ![c] = NoThrown]
  /\ reqOut' = [reqOut EXCEPT ![c] = Pending]
  /\ outcome' = [outcome EXCEPT ![c] = Pending]
  /\ earlier' = [d \in Calls |-> IF d = c THEN {} ELSE earlier[d] \ {c}]
  /\ tool' = [tool EXCEPT ![c] = NoTool]
  /\ UNCHANGED <<config, overlap, received, baseUrl, timeout>>

Next ==
  \E c \in Calls :
    \/ \E e \in Expectations : createExpectation(c, e)
    \/ \E m \in Matchers, t \in TimesSpecs \cup {Undefined} : verify(c, m, t)
    \/ \E m \in Matchers \cup {Undefined} : clear(c, m)
    \/ reset(c)
    \/ \E m \in Matchers \cup {Undefined} : retrieveRecordedRequests(c, m)
    \/ getStatus(c)
    \/ \E s \in Statuses : FetchResolve(c, s)
    \/ \E e \in TransportErrors : FetchReject(c, e)
    \/ TimerFire(c)
    \/ \E b \in Bodies : BodyText(c, b)
    \/ \E e \in BodyErrors : BodyFail(c, e)
    \/ Return(c)

Spec == Init /\ [][Next]_vars

\* ---- call sites that do not await one another (Promise.all over the client)
ConcConfig == [host |-> s_localhost, port |-> 1080, timeout |-> Undefined]

ConcStatuses == {200}

ConcBodies == {b_version}

ConcErrors == {JsError("TypeError", m_refused)}

InitConc ==
  /\ config = ConcConfig
  /\ overlap = TRUE
  /\ received = 0
  /\ baseUrl = BaseUrlOf(config)
  /\ timeout = TimeoutOf(config)
  /\ NoCalls

\* one operation of each kind of continuation: none (reset stands for
\* createExpectation and clear), verify, retrieveRecordedRequests, getStatus
NextConc ==
  \E c \in Calls :
    \/ verify(c, Matcher, Undefined)
    \/ reset(c)
    \/ retrieveRecordedRequests(c, Undefined)
    \/ getStatus(c)
    \/ \E s \in ConcStatuses : FetchResolve(c, s)
    \/ \E e \in ConcErrors : FetchReject(c, e)
    \/ TimerFire(c)
    \/ \E b \in ConcBodies : BodyText(c, b)
    \/ \E e \in ConcErrors : BodyFail(c, e)
    \/ Return(c)

SpecConc == InitConc /\ [][NextConc]_vars

\* ------------------------------------------------ the MCP call-tool handler
\* a call-tool request may reach the server for call site c: when requests
\* do not overlap, only after the previous one was answered
MayRequest(c) ==
  /\ ~tool[c].called
  /\ pc[c] = "idle"
  /\ overlap \/ \A d \in Calls : ~tool[d].called /\ pc[d] = "idle"

\* request.params of a CallToolRequest: { name, arguments }
CallTool(c, name, input) ==
  /\ MayRequest(c)
  /\ tool' = [tool EXCEPT ![c] = [called |-> TRUE, name |-> name, input |-> input,
                                  handled |-> Pending, result |-> NoResult]]
  /\ UNCHANGED <<config, overlap, received, earlier, baseUrl, timeout, pc, op, sent,
                 nfetch, timer, resp, thrown, reqOut, outcome>>

\* the request handler runs for a request that has not been answered
Dispatched(c) == tool[c].called /\ ~tool[c].result.done /\ pc[c] = "idle"

\* getToolHandler(name) finds nothing: the answer names the tool
UnknownTool(c) ==
  /\ Dispatched(c)
  /\ ~HasToolHandler(tool[c].name)
  /\ tool' = [tool EXCEPT ![c].result = UnknownToolResult(tool[c].name)]
  /\ UNCHANGED <<config, overlap, received, earlier, baseUrl, timeout, pc, op, sent,
                 nfetch, timer, resp, thrown, reqOut, outcome>>

\* safeParse fails: the handler throws before it calls the client, and the
\* call-tool handler answers with the failure
RejectInput(c) ==
  /\ Dispatched(c)
  /\ HasToolHandler(tool[c].name)
  /\ ~ValidToolInput(tool[c].name, tool[c].input)
  /\ LET h == Rejected(InvalidParameters(tool[c].input))
     IN tool' = [tool EXCEPT ![c].handled = h,
                             ![c].result = CallToolResult(tool[c].name, h)]
  /\ UNCHANGED <<config, overlap, received, earlier, baseUrl, timeout, pc, op, sent,
                 nfetch, timer, resp, thrown, reqOut, outcome>>

\* variant: the handler calls the client without checking its input
Handles_Unchecked(c, name) ==
  /\ Dispatched(c)
  /\ tool[c].name = name

\* a handler whose input passed the schema check calls the client
Handles(c, name) ==
  /\ Dispatched(c)
  /\ tool[c].name = name
  /\ ValidToolInput(name, tool[c].input)

handleCreateExpectation(c) ==
  /\ Handles(c, n_createExpectation)
  /\ createExpectation(c, ParsedToolInput(n_createExpectation, tool[c].input))

handleVerify(c) ==
  /\ Handles(c, n_verify)
  /\ verify(c, Get(ParsedToolInput(n_verify, tool[c].input), k_httpRequest),
            Get(ParsedToolInput(n_verify, tool[c].input), k_times))

handleClear(c) ==
  /\ Handles(c, n_clear)
  /\ clear(c, Get(ParsedToolInput(n_clear, tool[c].input), k_httpRequest))

handleReset(c) ==
  /\ Handles(c, n_reset)
  /\ reset(c)

handleRetrieveRequests(c) ==
  /\ Handles(c, n_retrieveRequests)
  /\ retrieveRecordedRequests(
       c, Get(ParsedToolInput(n_retrieveRequests, tool[c].input), k_httpRequest))

handleStatus(c) ==
  /\ Handles(c, n_status)
  /\ getStatus(c)

\* the answer of a request that never reached the client is sent
ToolReturn(c) ==
  /\ pc[c] = "idle"
  /\ tool[c].result.done
  /\ tool' = [tool EXCEPT ![c] = NoTool]
  /\ UNCHANGED <<config, overlap, received, earlier, baseUrl, timeout, pc, op, sent,
                 nfetch, timer, resp, thrown, reqOut, outcome>>

\* MockServer's verdict on a verification, from the requests it recorded
Satisfies(times, n) ==
  IF ~Truthy(times) THEN n >= 1
  ELSE /\ Absent(Get(times, k_exactly)) \/ n = Get(times, k_exactly).n
       /\ Absent(Get(times, k_atLeast)) \/ n >= Get(times, k_atLeast).n
       /\ Absent(Get(times, k_atMost)) \/ n <= Get(times, k_atMost).n

VerdictStatus(times, n) == IF Satisfies(times, n) THEN 202 ELSE 406

\* MockServer answers: a verification by its verdict, anything else freely
ServerAnswers(c, status) ==
  /\ op[c].name = "verify" => status = VerdictStatus(op[c].times, received)
  /\ FetchResolve(c, status)

MaxReceived == 3

UnknownKeyInput ==
  JObj(<<k_sort, k_httpRequest>>, <<JStr(s_asc), JObj(<<k_path, k_method>>, <<JStr(s_test), JStr(s_GET)>>)>>)

\* arguments a call-tool request may carry, per tool
ToolInputs(name) ==
  CASE name = n_createExpectation ->
         Expectations \cup
         {Undefined, EmptyObj, JObj(<<k_httpRequest>>, <<JObj(<<k_path>>, <<JNum(5)>>)>>),
          JObj(<<k_httpRequest, k_id>>, <<Matcher, JStr(s_name)>>)}
    [] name = n_verify ->
         {JObj(<<k_httpRequest>>, <<Matcher>>), UnknownKeyInput,
          JObj(<<k_httpRequest, k_times>>, <<Matcher, JObj(<<k_exactly>>, <<JNum(3)>>)>>),
          JObj(<<k_httpRequest, k_times>>, <<Matcher, JObj(<<k_atLeast>>, <<JNum(2)>>)>>),
          JObj(<<k_httpRequest, k_times>>, <<Matcher, JObj(<<k_atMost>>, <<JNum(2)>>)>>),
          JObj(<<k_httpRequest, k_times>>,
               <<Matcher, JObj(<<k_atLeast, k_atMost>>, <<JNum(1), JNum(2)>>)>>),
          JObj(<<k_httpRequest, k_times>>, <<Matcher, EmptyObj>>),
          EmptyObj,
          JObj(<<k_httpRequest, k_times>>, <<Matcher, JObj(<<k_exactly>>, <<JStr(s_name)>>)>>)}
    [] name \in {n_clear, n_retrieveRequests} ->
         {EmptyObj, JObj(<<k_httpRequest>>, <<Matcher>>), UnknownKeyInput,
          JObj(<<k_httpRequest>>, <<EmptyObj>>),
          Undefined, JObj(<<k_httpRequest>>, <<JStr(s_test)>>)}
    [] OTHER -> {Undefined, EmptyObj}

ToolStatuses == {200, 406, 500}

ToolBodies == {b_empty, b_version, b_notMatched, b_emptyArray, b_recorded, b_nullArray}

ToolErrors ==
  {JsError("TypeError", m_refused), JsError("Error", m_enotfound), NonError(m_thrownString)}

InitTool ==
  /\ config \in Configs
  /\ overlap = FALSE
  /\ received \in 0..MaxReceived
  /\ baseUrl = BaseUrlOf(config)
  /\ timeout = TimeoutOf(config)
  /\ NoCalls

NextTool ==
  \E c \in Calls :
    \/ \E name \in ToolNames \cup {n_unregistered} :
         \E input \in ToolInputs(name) : CallTool(c, name, input)
    \/ UnknownTool(c)
    \/ RejectInput(c)
    \/ handleCreateExpectation(c)
    \/ handleVerify(c)
    \/ handleClear(c)
    \/ handleReset(c)
    \/ handleRetrieveRequests(c)
    \/ handleStatus(c)
    \/ \E s \in ToolStatuses \cup {202} : ServerAnswers(c, s)
    \/ \E e \in ToolErrors : FetchReject(c, e)
    \/ TimerFire(c)
    \/ \E b \in ToolBodies : BodyText(c, b)
    \/ \E e \in ToolErrors : BodyFail(c, e)
    \/ Return(c)
    \/ ToolReturn(c)

SpecTool == InitTool /\ [][NextTool]_vars

\* ------------------------------------------------------------ properties
Settled(c) == pc[c] = "settled"

HasKey(v, key) == v.t = "obj" /\ \E i \in 1..Len(v.keys) : v.keys[i] = key

\* the four operations that return nothing or a list and catch nothing
PlainOps == {"createExpectation", "clear", "reset", "retrieveRecordedRequests"}

\* the text the request primitive read for a response that is not ok
ErrorTextOf(r) == IF r.read THEN r.body ELSE s_UnknownError

CountOfSpec(times) ==
  IF HasKey(times, k_exactly) THEN Get(times, k_exactly)
  ELSE IF HasKey(times, k_atLeast) THEN Get(times, k_atLeast)
  ELSE JNum(1)

C3_StatusSwallowsConnectionFailures ==
  \A c \in Calls :
    (/\ Settled(c) /\ op[c].name = "getStatus" /\ reqOut[c].kind = "throw"
     /\ reqOut[c].error.code \in {"CONNECTION_FAILED", "CONNECTION_TIMEOUT"}) =>
      /\ outcome[c].kind = "return"
      /\ outcome[c].value.keys = <<k_host, k_port, k_reachable>>
      /\ Get(outcome[c].value, k_reachable) = JBool(FALSE)
      /\ ~HasKey(outcome[c].value, k_version)

C3_Witness ==
  \E c \in Calls :
    /\ Settled(c) /\ op[c].name = "getStatus"
    /\ thrown[c] = JsError("TypeError", m_refused)
    /\ reqOut[c].error.code = "CONNECTION_FAILED"
    /\ outcome[c].kind = "return"

\* the (operation, failure kind) pairs that are caught and not re-raised
Swallowed(name, code) ==
  \/ name = "verify" /\ code = "VERIFICATION_FAILED"
  \/ name = "getStatus" /\ code \in {"CONNECTION_FAILED", "CONNECTION_TIMEOUT"}

\* C4: a failure raised by the request primitive is turned into a returned
\* value exactly for verify with VERIFICATION_FAILED and getStatus with
\* CONNECTION_FAILED or CONNECTION_TIMEOUT; for every other (operation, kind)
\* pair the caller receives that very failure: same kind, message, details.
C4_OnlyTwoCatchSites ==
  \A c \in Calls :
    (Settled(c) /\ reqOut[c].kind = "throw") =>
      IF Swallowed(op[c].name, reqOut[c].error.code)
      THEN outcome[c].kind = "return"
      ELSE outcome[c] = reqOut[c]

C4_Witness ==
  \E c \in Calls :
    /\ Settled(c) /\ op[c].name = "retrieveRecordedRequests"
    /\ reqOut[c].kind = "throw" /\ reqOut[c].error.code = "CONNECTION_TIMEOUT"
    /\ outcome[c].kind = "throw" /\ outcome[c].error = reqOut[c].error

\* C5: a rejection that reaches the catch block as an Error not named
\* AbortError whose message contains "ECONNREFUSED", "fetch failed" or
\* "network" is classified CONNECTION_FAILED, for each of the six operations.
C5_ConnectionFailedClassification ==
  \A c \in Calls :
    (/\ Settled(c) /\ thrown[c].isError /\ thrown[c].name # "AbortError"
     /\ \/ Includes(thrown[c].message, s_ECONNREFUSED)
        \/ Includes(thrown[c].message, s_fetchFailed)
        \/ Includes(thrown[c].message, s_network)) =>
      /\ reqOut[c].kind = "throw"
      /\ reqOut[c].error.code = "CONNECTION_FAILED"

C5_Witness ==
  \E c \in Calls :
    /\ Settled(c) /\ op[c].name = "clear"
    /\ thrown[c] = JsError("TypeError", m_networkDown)
    /\ outcome[c].kind = "throw" /\ outcome[c].error.code = "CONNECTION_FAILED"

\* some string-valued entry of the detail map d is the text str
DetailHolds(d, str) ==
  d.t = "obj" /\ \E i \in 1..Len(d.items) : d.items[i] = JStr(str)

\* C6 as claimed: every CONNECTION_FAILED failure carries the configured base
\* address "http://{host}:{port}" in its detail map.
C6_BaseAddressInDetails ==
  \A c \in Calls :
    (Settled(c) /\ reqOut[c].kind = "throw" /\ reqOut[c].error.code = "CONNECTION_FAILED") =>
      DetailHolds(reqOut[c].error.details, BaseUrlOf(config))

\* C6: every CONNECTION_FAILED failure carries the configured base address
\* "http://{host}:{port}" in its message, "Cannot connect to MockServer at
\* <base address>"; its detail map holds the original error message.
C6_BaseAddressInMessage ==
  \A c \in Calls :
    (Settled(c) /\ reqOut[c].kind = "throw" /\ reqOut[c].error.code = "CONNECTION_FAILED") =>
      /\ reqOut[c].error.message = s_CannotConnect \o BaseUrlOf(config)
      /\ reqOut[c].error.details = JObj(<<k_originalError>>, <<JStr(thrown[c].message)>>)

C6_Witness ==
  \E c \in Calls :
    /\ Settled(c) /\ op[c].name = "createExpectation"
    /\ config.host = s_ipv6
    /\ reqOut[c].kind = "throw" /\ reqOut[c].error.code = "CONNECTION_FAILED"

\* C7: an Error named AbortError (as produced when the timeout clock
\* expires) makes createExpectation, clear, reset, retrieveRecordedRequests
\* and verify raise CONNECTION_TIMEOUT and makes getStatus return
\* reachable: false.
C7_AbortIsTimeout ==
  \A c \in Calls :
    (Settled(c) /\ thrown[c].isError /\ thrown[c].name = "AbortError") =>
      IF op[c].name = "getStatus"
      THEN /\ outcome[c].kind = "return"
           /\ Get(outcome[c].value, k_reachable) = JBool(FALSE)
      ELSE /\ outcome[c].kind = "throw"
           /\ outcome[c].error.code = "CONNECTION_TIMEOUT"

C7_Witness ==
  \E c \in Calls :
    /\ Settled(c) /\ op[c].name = "verify" /\ timer[c] = "fired"
    /\ outcome[c].kind = "throw" /\ outcome[c].error.code = "CONNECTION_TIMEOUT"

\* C8 as claimed: for createExpectation, clear, reset and
\* retrieveRecordedRequests every non-2xx status, 406 included, raises
\* MOCKSERVER_ERROR, and VERIFICATION_FAILED is produced only for verify.
C8_PlainOpsRaiseMockServerError ==
  \A c \in Calls :
    /\ (/\ Settled(c) /\ op[c].name \in PlainOps
        /\ resp[c].status # 0 /\ ~ResponseOk(resp[c].status)) =>
         /\ outcome[c].kind = "throw"
         /\ outcome[c].error.code = "MOCKSERVER_ERROR"
    /\ (Settled(c) /\ reqOut[c].error.code = "VERIFICATION_FAILED") =>
         op[c].name = "verify"

\* C9 as claimed: every MOCKSERVER_ERROR failure carries, in its detail map,
\* both the response's status code and the raw body text (the placeholder
\* "Unknown error" when the body cannot be read).
C9_StatusAndBodyInDetails ==
  \A c \in Calls :
    (Settled(c) /\ reqOut[c].kind = "throw" /\ reqOut[c].error.code = "MOCKSERVER_ERROR") =>
      /\ Get(reqOut[c].error.details, k_statusCode) = JNum(resp[c].status)
      /\ DetailHolds(reqOut[c].error.details, ErrorTextOf(resp[c]))

\* C9: every MOCKSERVER_ERROR failure carries the response's status code in
\* its detail map and the raw body text (the placeholder "Unknown error"
\* when the body cannot be read) in its message, after "MockServer error: ".
C9_StatusInDetailsBodyInMessage ==
  \A c \in Calls :
    (Settled(c) /\ reqOut[c].kind = "throw" /\ reqOut[c].error.code = "MOCKSERVER_ERROR") =>
      /\ reqOut[c].error.details = JObj(<<k_statusCode>>, <<JNum(resp[c].status)>>)
      /\ reqOut[c].error.message = s_MockServerError \o ErrorTextOf(resp[c])

C9_Witness ==
  \E c \in Calls :
    /\ Settled(c) /\ op[c].name = "reset"
    /\ resp[c].status = 500 /\ resp[c].read /\ resp[c].body = b_html
    /\ reqOut[c].kind = "throw" /\ reqOut[c].error.code = "MOCKSERVER_ERROR"

\* the probe got a malformed response: 2xx, body not empty and not JSON
MalformedProbe(c) ==
  /\ Settled(c) /\ op[c].name = "getStatus"
  /\ ResponseOk(resp[c].status) /\ resp[c].read
  /\ resp[c].body # << >> /\ ~JSONParse(resp[c].body).ok

\* C10 as claimed: getStatus raises a failure, rather than returning a
\* status, when the probe gets a malformed response.
C10_MalformedProbeRaises ==
  \A c \in Calls : MalformedProbe(c) => outcome[c].kind = "throw"

\* C10: getStatus returns a status with reachable: true and no version
\* string, rather than raising, when the probe gets a malformed response.
C10_MalformedProbeIsReachable ==
  \A c \in Calls :
    MalformedProbe(c) =>
      /\ outcome[c].kind = "return"
      /\ Get(outcome[c].value, k_reachable) = JBool(TRUE)
      /\ Get(outcome[c].value, k_version) = Undefined

C10_Witness ==
  \E c \in Calls :
    /\ MalformedProbe(c) /\ resp[c].body = b_truncated
    /\ outcome[c].kind = "return"

\* C11: retrieveRecordedRequests always returns a sequence: for a 2xx body
\* that is a JSON array it returns that array (same elements, same order),
\* for any other 2xx body (empty, JSON object, JSON scalar, text that is not
\* JSON) it returns the empty sequence.
C11_RetrieveReturnsSequence ==
  \A c \in Calls :
    (/\ Settled(c) /\ op[c].name = "retrieveRecordedRequests"
     /\ ResponseOk(resp[c].status) /\ resp[c].read) =>
      /\ outcome[c].kind = "return"
      /\ outcome[c].value.t = "arr"
      /\ IF resp[c].body # << >> /\ resp[c].body[1] = "[" /\ JSONParse(resp[c].body).ok
         THEN /\ outcome[c].value.items = JSONParse(resp[c].body).val.items
              /\ Stringify(outcome[c].value) = resp[c].body
         ELSE outcome[c].value.items = << >>

C11_Witness ==
  \E c \in Calls :
    /\ Settled(c) /\ op[c].name = "retrieveRecordedRequests"
    /\ resp[c].status = 200 /\ resp[c].read /\ resp[c].body = b_requests
    /\ outcome[c].kind = "return" /\ Len(outcome[c].value.items) = 2
    /\ Get(outcome[c].value.items[2], k_method) = JStr(s_GET)

\* the path each operation addresses
PathOf(name) ==
  CASE name = "createExpectation" -> p_expectation
    [] name = "verify" -> p_verify
    [] name = "clear" -> p_clear
    [] name = "reset" -> p_reset
    [] name = "retrieveRecordedRequests" -> p_retrieve
    [] OTHER -> p_status

\* the body text each operation sends, written out as JSON text
BodyTextOf(o) ==
  CASE o.name = "createExpectation" -> Stringify(o.arg)
    [] o.name = "verify" ->
         IF o.times = Undefined
         THEN t_httpRequestOpen \o Stringify(o.arg) \o <<"}">>
         ELSE t_httpRequestOpen \o Stringify(o.arg) \o
              t_timesMember \o Stringify(o.times) \o <<"}">>
    [] o.name \in {"clear", "retrieveRecordedRequests"} ->
         IF o.arg = Undefined THEN t_emptyObject
         ELSE t_httpRequestOpen \o Stringify(o.arg) \o <<"}">>
    [] OTHER -> t_emptyObject

\* C12: each operation issues a PUT with content type application/json to
\* its own URL with its own body: createExpectation the Expectation verbatim
\* (a two-valued parameter list unchanged), verify {httpRequest} plus times
\* only when a count spec was given, clear {} or {httpRequest}, reset and
\* getStatus {}; only retrieveRecordedRequests adds a query string,
\* ?type=REQUESTS; the body is never absent.
C12_RequestShape ==
  \A c \in Calls :
    pc[c] # "idle" =>
      /\ sent[c].method = "PUT"
      /\ sent[c].contentType = "application/json"
      /\ sent[c].url =
           s_scheme \o config.host \o <<":">> \o NumToStr(config.port) \o
           PathOf(op[c].name) \o
           (IF op[c].name = "retrieveRecordedRequests" THEN t_typeRequests ELSE << >>)
      /\ Includes(sent[c].url, <<"?">>) <=> op[c].name = "retrieveRecordedRequests"
      /\ sent[c].body = BodyTextOf(op[c])
      /\ sent[c].body # << >>
      /\ JSONParse(sent[c].body).ok
      /\ op[c].name = "createExpectation" => JSONParse(sent[c].body).val = op[c].arg
      /\ op[c].arg = SortExpectation => sent[c].body = t_sortExpectation

C12_Witness ==
  \E c \in Calls :
    /\ pc[c] = "fetch" /\ op[c].name = "createExpectation"
    /\ op[c].arg = SortExpectation
    /\ sent[c].body = t_sortExpectation

\* C13: every invocation of an operation performs exactly one outbound HTTP
\* exchange, whatever its outcome: a call that is in flight or has settled
\* has invoked fetch once, never a second time after a failure, and no call
\* settles without having invoked it.
C13_ExactlyOneExchange ==
  \A c \in Calls :
    /\ pc[c] = "idle" => nfetch[c] = 0
    /\ pc[c] # "idle" => nfetch[c] = 1

C13_Witness ==
  \E c \in Calls :
    /\ Settled(c) /\ op[c].name = "reset"
    /\ outcome[c].kind = "throw" /\ outcome[c].error.code = "CONNECTION_FAILED"
    /\ nfetch[c] = 1

\* the step in which the timeout clock of call c expires: the TimerFire step
TimerExpires(c) ==
  /\ pc[c] = "fetch"
  /\ timer[c] = "armed"
  /\ timer' = [timer EXCEPT ![c] = "fired"]

\* the timeout clock is served by the event loop: an armed timer whose call
\* is still awaiting fetch eventually fires; the remote side and the
\* transport are under no obligation to deliver anything
SpecLive == Init /\ [][Next]_vars /\ \A c \in Calls : WF_timer(TimerExpires(c))

\* C14 as claimed: every issued call eventually settles, by completing or by
\* CONNECTION_TIMEOUT once the timeout budget is exceeded, also when the
\* response headers arrived in time and the body never finishes arriving.
C14_EveryCallSettles ==
  \A c \in Calls : (pc[c] \in {"fetch", "body"}) ~> Settled(c)

\* while fetch is awaited the clock does bound the call
FetchPhaseEnds ==
  \A c \in Calls : (pc[c] = "fetch") ~> (pc[c] \in {"body", "settled"})

\* everything the client holds for one call
CallState(c) ==
  <<pc[c], op[c], sent[c], nfetch[c], timer[c], resp[c], thrown[c], reqOut[c],
    outcome[c]>>

\* what the transport did to one call: the response, the rejection, the clock
TransportOutcome(c) == <<resp[c], thrown[c], timer[c]>>

SameCallSameOutcome ==
  \A c, d \in Calls :
    (/\ Settled(c) /\ Settled(d)
     /\ op[c] = op[d]
     /\ TransportOutcome(c) = TransportOutcome(d))
    => (reqOut[c] = reqOut[d] /\ outcome[c] = outcome[d])

OneCallPerStep ==
  \A c, d \in Calls :
    (c # d /\ CallState(c)' # CallState(c)) => CallState(d)' = CallState(d)

\* C15: calls that overlap on one client are independent: a step of one call
\* (its response, its failure, the expiry of its clock) changes nothing of
\* any other call, so an expiry aborts only its own call, and two calls of
\* the same operation with the same transport outcome settle the same way
C15_ConcurrentCallsIndependent ==
  /\ []SameCallSameOutcome
  /\ [][OneCallPerStep]_vars

\* one call timed out while an overlapping call returned its result with its
\* own clock cleared
C15_Witness ==
  \E c, d \in Calls :
    /\ c # d
    /\ Settled(c) /\ timer[c] = "fired"
    /\ reqOut[c].kind = "throw" /\ reqOut[c].error.code = "CONNECTION_TIMEOUT"
    /\ Settled(d) /\ timer[d] = "cleared" /\ outcome[d].kind = "return"
    /\ c \notin earlier[d] /\ d \notin earlier[c]


\* the reachable member of the status a settled getStatus call returned
ReachableOf(c) == Get(outcome[c].value, k_reachable)

\* C16: the client keeps no memory between calls. For a call c and a call d
\* that had already settled when c was issued: the same operation with the
\* same arguments sends the same request and, given the same transport
\* outcome, settles the same way; a getStatus reports reachable from its own
\* probe alone (true after an earlier false, false after an earlier true);
\* a second reset sends the same PUT /mockserver/reset with body {}.
C16_NoMemoryBetweenCalls ==
  \A c \in Calls : \A d \in earlier[c] :
    /\ op[c] = op[d] => sent[c] = sent[d]
    /\ (Settled(c) /\ op[c] = op[d] /\ TransportOutcome(c) = TransportOutcome(d))
         => (reqOut[c] = reqOut[d] /\ outcome[c] = outcome[d])
    /\ (Settled(c) /\ op[c].name = "getStatus" /\ op[d].name = "getStatus")
         => /\ reqOut[c].kind = "return"
                 => (outcome[c].kind = "return" /\ ReachableOf(c) = JBool(TRUE))
            /\ (reqOut[c].kind = "throw"
                /\ reqOut[c].error.code \in {"CONNECTION_FAILED", "CONNECTION_TIMEOUT"})
                 => (outcome[c].kind = "return" /\ ReachableOf(c) = JBool(FALSE))
    /\ (op[c].name = "reset" /\ op[d].name = "reset")
         => /\ sent[c].method = "PUT"
            /\ sent[c].url = baseUrl \o p_reset
            /\ sent[c].body = t_emptyObject

\* a status query that found the server unreachable, followed by one whose
\* probe succeeded
C16_Witness ==
  \E c \in Calls : \E d \in earlier[c] :
    /\ Settled(c) /\ op[c].name = "getStatus" /\ op[d].name = "getStatus"
    /\ outcome[d].kind = "return" /\ ReachableOf(d) = JBool(FALSE)
    /\ reqOut[c].kind = "return"
    /\ ReachableOf(c) = JBool(TRUE)

\* the reverse order, and a reset issued after a settled reset
C16_ReverseReached ==
  \E c \in Calls : \E d \in earlier[c] :
    /\ Settled(c) /\ op[c].name = "getStatus" /\ op[d].name = "getStatus"
    /\ ReachableOf(d) = JBool(TRUE) /\ ReachableOf(c) = JBool(FALSE)

C16_SecondResetReached ==
  \E c \in Calls : \E d \in earlier[c] :
    op[c].name = "reset" /\ op[d].name = "reset" /\ pc[c] = "fetch"

\* C17: the host and port a getStatus call reports, reachable or not, are
\* the host and port given at construction, for every host string (also one
\* that contains ':' such as an IPv6 literal) and every port.
C17_StatusReportsConstructionHostPort ==
  \A c \in Calls :
    (Settled(c) /\ op[c].name = "getStatus" /\ outcome[c].kind = "return")
      => /\ Get(outcome[c].value, k_host) = JStr(config.host)
         /\ Get(outcome[c].value, k_port) = JNum(config.port)

RaisedCodes ==
  {"CONNECTION_FAILED", "CONNECTION_TIMEOUT", "MOCKSERVER_ERROR",
   "VERIFICATION_FAILED", "UNKNOWN_ERROR"}

\* C18: every failure raised by the request primitive or by an operation is
\* a ToolError whose code is CONNECTION_FAILED, CONNECTION_TIMEOUT,
\* MOCKSERVER_ERROR, VERIFICATION_FAILED or UNKNOWN_ERROR: never the value
\* the transport threw, never one of the other codes.
C18_ClosedFailureKinds ==
  \A c \in Calls :
    /\ reqOut[c].kind = "throw" =>
         /\ reqOut[c].error.code \in RaisedCodes
         /\ reqOut[c].error.code \in ErrorCodes
    /\ outcome[c].kind = "throw" =>
         /\ outcome[c].error.code \in RaisedCodes
         /\ outcome[c].error = reqOut[c].error
    /\ outcome[c].kind # "throw" => outcome[c].error = NoError

\* a thrown value that is not an Error is raised as UNKNOWN_ERROR
C18_Witness ==
  \E c \in Calls :
    /\ Settled(c)
    /\ ~thrown[c].isError /\ thrown[c] # NoThrown
    /\ outcome[c].kind = "throw"
    /\ outcome[c].error.code = "UNKNOWN_ERROR"

\* C19: a transport failure caused by DNS resolution failure, an Error whose
\* message is "getaddrinfo ENOTFOUND <host>", is classified CONNECTION_FAILED.
C19_DnsFailureIsConnectionFailed ==
  \A c \in Calls :
    (Settled(c) /\ thrown[c] = JsError("Error", m_enotfound))
      => (reqOut[c].kind = "throw" /\ reqOut[c].error.code = "CONNECTION_FAILED")

\* the base address the constructor builds for each configuration, written out
BaseAddressWritten ==
  /\ (config.host = s_localhost /\ config.port = 1080) => baseUrl = u_localhost1080
  /\ (config.host = s_localhost /\ config.port = 1) => baseUrl = u_localhost1
  /\ (config.host = s_ipv6 /\ config.port = 65535) => baseUrl = u_ipv6
  /\ baseUrl = s_scheme \o config.host \o <<":">> \o NumToStr(config.port)

TimeoutAsGiven ==
  /\ config.timeout = Undefined => timeout = 5000
  /\ config.timeout # Undefined => timeout = config.timeout.n

NoNetworkActivity ==
  \A c \in Calls :
    nfetch[c] = 0 /\ timer[c] = "none" /\ sent[c] = NoRequest /\ pc[c] = "idle"

\* C20: constructing a client performs no network activity and only fixes
\* the configuration: the base address is "http://{host}:{port}", the timeout
\* is the given value, or 5000 ms exactly when none is given; no operation
\* ever changes the base address or the timeout afterwards.
C20_ConstructionFixesConfiguration ==
  /\ NoNetworkActivity
  /\ [](BaseAddressWritten /\ TimeoutAsGiven)
  /\ [][baseUrl' = baseUrl /\ timeout' = timeout /\ config' = config]_vars

\* a client constructed with a timeout, after an operation has timed out
C20_Witness ==
  \E c \in Calls :
    /\ Settled(c) /\ timer[c] = "fired"
    /\ config.timeout = JNum(100)
    /\ timeout = 100
    /\ baseUrl = u_localhost1

\* ---------------------------------------------------------------- tool layer
\* the call was made for a call-tool request that has been answered
Answered(c) == tool[c].called /\ tool[c].result.done

\* MockServer was unreachable for the call: fetch was refused
Unreachable(c) ==
  /\ Settled(c)
  /\ resp[c] = NoResponse
  /\ thrown[c] = JsError("TypeError", m_refused)

\* C21: when MockServer is unreachable, mockserver_status answers without
\* isError, reporting Unreachable with the configured host and port; the
\* other five tools answer with isError and a text that contains
\* "Cannot connect to MockServer at <base address>".
C21_UnreachableToolAnswers ==
  \A c \in Calls :
    (tool[c].called /\ Unreachable(c)) =>
      /\ Answered(c)
      /\ IF tool[c].name = n_status
         THEN /\ ~tool[c].result.isError
              /\ tool[c].result.text =
                   x_StatusHead \o <<"U+2717">> \o x_Unreachable \o x_Configuration \o
                   config.host \o x_Port \o NumToStr(config.port)
         ELSE /\ tool[c].result.isError
              /\ Includes(tool[c].result.text,
                          s_CannotConnect \o s_scheme \o config.host \o <<":">> \o
                          NumToStr(config.port))

\* C22: the matched count verify reports, when the verification succeeds and
\* when it fails, is the number of matching requests MockServer received.
C22_MatchedCountIsActual ==
  \A c \in Calls :
    (Settled(c) /\ op[c].name = "verify" /\ resp[c].read /\ outcome[c].kind = "return")
      => Get(outcome[c].value, k_matchedCount) = JNum(received)

\* the failure raised inside the try for the response a call received
RaisedInTry(c) ==
  NonOkError(resp[c].status, IF resp[c].read THEN resp[c].body ELSE s_UnknownError)

\* C23: a failure is classified once: the ToolError raised inside the try for
\* a response that is not 2xx leaves the request primitive with its code,
\* message and details unchanged, never as UNKNOWN_ERROR or another code, and
\* an operation that raises raises that same failure.
C23_ClassifiedOnce ==
  \A c \in Calls :
    /\ (Settled(c) /\ resp[c] # NoResponse /\ ~ResponseOk(resp[c].status))
         => /\ reqOut[c] = Rejected(RaisedInTry(c))
            /\ reqOut[c].error.code \in {"VERIFICATION_FAILED", "MOCKSERVER_ERROR"}
    /\ (Settled(c) /\ outcome[c].kind = "throw")
         => (reqOut[c].kind = "throw" /\ outcome[c].error = reqOut[c].error)

\* a 500 whose body text carries a connection signature is still raised as
\* the MOCKSERVER_ERROR built inside the try
C23_Witness ==
  \E c \in Calls :
    /\ Settled(c) /\ resp[c].status = 500 /\ resp[c].read
    /\ resp[c].body = m_networkDown
    /\ outcome[c].kind = "throw"
    /\ outcome[c].error.code = "MOCKSERVER_ERROR"
    /\ outcome[c].error.message = s_MockServerError \o resp[c].body

\* the message carries one of the three connection signatures
ConnectionSignature(msg) ==
  \/ Includes(msg, s_ECONNREFUSED)
  \/ Includes(msg, s_fetchFailed)
  \/ Includes(msg, s_network)

\* C24: every value the transport throws gets exactly one kind, by an ordered
\* rule: an Error named AbortError is CONNECTION_TIMEOUT, also when its
\* message carries a connection signature; otherwise an Error whose message
\* contains "ECONNREFUSED", "fetch failed" or "network" (case-sensitive) is
\* CONNECTION_FAILED; any other Error and any thrown value that is not an
\* Error is UNKNOWN_ERROR.
C24_ClassificationOrdered ==
  \A c \in Calls :
    (Settled(c) /\ thrown[c] # NoThrown) =>
      /\ reqOut[c].kind = "throw"
      /\ reqOut[c].error.code =
           (IF thrown[c].isError /\ thrown[c].name = "AbortError"
            THEN "CONNECTION_TIMEOUT"
            ELSE IF thrown[c].isError /\ ConnectionSignature(thrown[c].message)
            THEN "CONNECTION_FAILED"
            ELSE "UNKNOWN_ERROR")
      /\ thrown[c] = JsError("AbortError", m_abortedNetwork)
           => reqOut[c].error.code = "CONNECTION_TIMEOUT"
      /\ thrown[c] = JsError("TypeError", m_networkDown)
           => reqOut[c].error.code = "CONNECTION_FAILED"
      /\ thrown[c] = JsError("Error", m_NetworkCaps)
           => reqOut[c].error.code = "UNKNOWN_ERROR"
      /\ thrown[c] = NonError(m_networkDown)
           => reqOut[c].error.code = "UNKNOWN_ERROR"

\* a thrown string that contains "network" was classified
C24_Witness ==
  \E c \in Calls :
    /\ Settled(c)
    /\ thrown[c] = NonError(m_networkDown)
    /\ reqOut[c].kind = "throw"
    /\ reqOut[c].error.code = "UNKNOWN_ERROR"

\* C25: for a 2xx response whose body was read the request primitive never
\* raises: an empty body yields the empty object {}, a body that is valid
\* JSON yields the parsed value, any other body yields its raw text.
C25_OkBodyNeverRaises ==
  \A c \in Calls :
    (Settled(c) /\ resp[c].read /\ ResponseOk(resp[c].status)) =>
      /\ reqOut[c].kind = "return"
      /\ resp[c].body = << >> =>
           (reqOut[c].value = EmptyObj /\ reqOut[c].value.t \notin {"null", "undefined"})
      /\ (resp[c].body # << >> /\ JSONParse(resp[c].body).ok)
           => reqOut[c].value = JSONParse(resp[c].body).val
      /\ (resp[c].body # << >> /\ ~JSONParse(resp[c].body).ok)
           => reqOut[c].value = JStr(resp[c].body)
      /\ resp[c].body = b_version
           => reqOut[c].value = JObj(<<k_version>>, <<JStr(v_5_15_0)>>)
      /\ resp[c].body = b_emptyArray => reqOut[c].value = JArr(<< >>)
      /\ resp[c].body = b_null => reqOut[c].value = JNull
      /\ resp[c].body = b_number => reqOut[c].value = JNum(42)
      /\ resp[c].body \in {b_html, b_truncated, m_networkDown}
           => reqOut[c].value = JStr(resp[c].body)

\* a 2xx response with an empty body, and one with a body cut off mid-JSON
C25_Witness ==
  \E c \in Calls :
    /\ Settled(c) /\ resp[c].read /\ resp[c].status = 200
    /\ resp[c].body = b_truncated
    /\ reqOut[c] = Fulfilled(JStr(b_truncated))

C25_EmptyBodyReached ==
  \E c \in Calls :
    /\ Settled(c) /\ resp[c].read /\ resp[c].status = 202
    /\ resp[c].body = << >>
    /\ reqOut[c] = Fulfilled(EmptyObj)

ValidatingTools == {n_createExpectation, n_verify, n_clear, n_retrieveRequests}

\* the request names a tool that checks its input, and the input fails the check
InputRefused(c) ==
  /\ tool[c].called
  /\ tool[c].name \in ValidatingTools
  /\ \/ ~ValidToolInput(tool[c].name, tool[c].input)
     \/ tool[c].input = Undefined
     \/ tool[c].name \in {n_createExpectation, n_verify} /\ tool[c].input = EmptyObj

\* C26: input validation precedes transport: for a request whose input fails
\* the schema of mockserver_create_expectation, mockserver_verify,
\* mockserver_clear or mockserver_retrieve_requests, the client is never
\* called and no HTTP request is issued, and the handler raises
\* INVALID_PARAMETERS.
C26_ValidationPrecedesTransport ==
  \A c \in Calls :
    InputRefused(c) =>
      /\ pc[c] = "idle" /\ nfetch[c] = 0 /\ sent[c] = NoRequest /\ timer[c] = "none"
      /\ tool[c].result.done =>
           /\ tool[c].handled.kind = "throw"
           /\ tool[c].handled.error.code = "INVALID_PARAMETERS"
           /\ tool[c].result.isError

\* a verification request without httpRequest was answered
C26_Witness ==
  \E c \in Calls :
    /\ tool[c].called /\ tool[c].name = n_verify /\ tool[c].input = EmptyObj
    /\ tool[c].result.done
    /\ tool[c].handled.kind = "throw"
    /\ tool[c].handled.error.code = "INVALID_PARAMETERS"
    /\ nfetch[c] = 0

\* C27: the call-tool handler never lets a failure escape. A request for a
\* name that is not registered is answered isError "Unknown tool: <name>",
\* with no handler run and no HTTP request; every request whose operation
\* settled is answered; a failure raised by a handler, typed or not, is
\* answered isError "Error executing <name>: <message>"; a verification the
\* server answered with 406 is answered without isError.
C27_NoFailureEscapes ==
  \A c \in Calls :
    tool[c].called =>
      /\ tool[c].name \notin ToolNames =>
           /\ pc[c] = "idle" /\ nfetch[c] = 0
           /\ tool[c].handled = Pending
           /\ tool[c].result.done =>
                /\ tool[c].result.isError
                /\ tool[c].result.text = x_UnknownTool \o tool[c].name
      /\ Settled(c) => tool[c].result.done
      /\ (tool[c].result.done /\ tool[c].handled.kind = "throw") =>
           /\ tool[c].result.isError
           /\ tool[c].result.text =
                x_ErrorExecuting \o tool[c].name \o x_colon \o
                tool[c].handled.error.message
      /\ (tool[c].result.done /\ tool[c].handled.kind = "return") =>
           ~tool[c].result.isError
      /\ (Settled(c) /\ tool[c].name = n_verify /\ resp[c].status = 406) =>
           /\ ~tool[c].result.isError
           /\ tool[c].handled.kind = "return"
           /\ Includes(tool[c].result.text, x_Failed)

\* a handler raised a TypeError over a recorded request that is null, and the
\* request was answered
C27_Witness ==
  \E c \in Calls :
    /\ Settled(c) /\ tool[c].name = n_retrieveRequests
    /\ resp[c].body = b_nullArray
    /\ tool[c].handled.kind = "throw"
    /\ tool[c].handled.error.code = ""
    /\ tool[c].result.isError
    /\ tool[c].result.text =
         x_ErrorExecuting \o n_retrieveRequests \o x_colon \o m_readMethodOfNull

C27_UnknownToolReached ==
  \E c \in Calls :
    /\ tool[c].name = n_unregistered /\ tool[c].result.done
    /\ tool[c].result.text = x_UnknownTool \o n_unregistered

C27_NegativeVerificationReached ==
  \E c \in Calls :
    /\ Settled(c) /\ tool[c].name = n_verify /\ resp[c].status = 406 /\ resp[c].read
    /\ ~tool[c].result.isError

\* what the response alone makes of a call whose body was read
DecidedByResponse(c) ==
  IF ResponseOk(resp[c].status)
  THEN Fulfilled(OkResult(resp[c].body))
  ELSE Rejected(NonOkError(resp[c].status, resp[c].body))

RaceDecided ==
  \A c \in Calls :
    /\ timer[c] = "fired" =>
         /\ Settled(c)
         /\ resp[c] = NoResponse
         /\ reqOut[c].kind = "throw"
         /\ reqOut[c].error.code = "CONNECTION_TIMEOUT"
         /\ outcome[c].kind = "return" =>
              (op[c].name = "getStatus" /\ ReachableOf(c) = JBool(FALSE))
    /\ resp[c] # NoResponse =>
         /\ timer[c] = "cleared"
         /\ resp[c].read => reqOut[c] = DecidedByResponse(c)
         /\ reqOut[c].kind = "throw" => reqOut[c].error.code # "CONNECTION_TIMEOUT"
    /\ reqOut[c].kind = "return" => reqOut[c].error = NoError
    /\ reqOut[c].kind = "throw" => reqOut[c].value = Undefined
    /\ Settled(c) <=> reqOut[c].kind \in {"return", "throw"}

SettledOnce ==
  \A c \in Calls :
    (Settled(c) /\ pc'[c] = "settled") =>
      (reqOut'[c] = reqOut[c] /\ outcome'[c] = outcome[c] /\ timer'[c] = timer[c])

\* C28: each call has one outcome, decided by the race between its clock and
\* the transport. If the clock expires before the response status arrives the
\* call fails with CONNECTION_TIMEOUT and returns no success value; if the
\* status arrives first the clock is cancelled and a response whose body was
\* read decides the outcome alone; no call returns and raises, an outcome
\* never changes, and no call reports a timeout after its response arrived.
C28_OneOutcomeByRace ==
  /\ []RaceDecided
  /\ [][SettledOnce]_vars

\* a call whose clock expired before any response status arrived
C28_Witness ==
  \E c \in Calls :
    /\ Settled(c) /\ timer[c] = "fired" /\ resp[c] = NoResponse
    /\ reqOut[c].kind = "throw" /\ reqOut[c].error.code = "CONNECTION_TIMEOUT"
    /\ outcome[c].kind = "throw"

\* a call whose response arrived first: the clock was cancelled and the
\* non-2xx response decided the outcome
C28_ResponseFirstReached ==
  \E c \in Calls :
    /\ Settled(c) /\ timer[c] = "cleared" /\ resp[c].read
    /\ ~ResponseOk(resp[c].status)
    /\ reqOut[c] = DecidedByResponse(c)

\* the response status of call c arrived (fetch resolved)
StatusReceived(c) == resp[c] # NoResponse

\* a settled call raised VERIFICATION_FAILED inside request exactly when the
\* status that arrived is 406
VerificationFailedIff406 ==
  \A c \in Calls :
    Settled(c) =>
      ((reqOut[c].kind = "throw" /\ reqOut[c].error.code = "VERIFICATION_FAILED")
         <=> (StatusReceived(c) /\ resp[c].status = 406))

\* a settled verify returns success: false exactly when the status is 406
VerifyNegativeIff406 ==
  \A c \in Calls :
    (Settled(c) /\ op[c].name = "verify") =>
      ((outcome[c].kind = "return" /\ Get(outcome[c].value, k_success) = JBool(FALSE))
         <=> (StatusReceived(c) /\ resp[c].status = 406))

\* the claim as stated: VERIFICATION_FAILED exactly on 406, verify negative
\* exactly on 406, and a settled getStatus returns reachable: true exactly
\* when a 2xx status arrived
C29_ReachableIffStatus2xx ==
  /\ VerificationFailedIff406
  /\ VerifyNegativeIff406
  /\ \A c \in Calls :
       (Settled(c) /\ op[c].name = "getStatus") =>
         ((outcome[c].kind = "return" /\ ReachableOf(c) = JBool(TRUE))
            <=> (StatusReceived(c) /\ ResponseOk(resp[c].status)))

\* C29: a failure of kind VERIFICATION_FAILED is produced if and only if the
\* remote answered with status 406, and verify returns success: false if and
\* only if that happened; getStatus returns reachable: true if and only if
\* its probe received a 2xx status and the body of that response was read (a
\* 2xx status whose body read fails gives reachable: false or a raised
\* failure).
C29_ReachableIffResponseRead ==
  /\ VerificationFailedIff406
  /\ VerifyNegativeIff406
  /\ \A c \in Calls :
       (Settled(c) /\ op[c].name = "getStatus") =>
         /\ (outcome[c].kind = "return" /\ ReachableOf(c) = JBool(TRUE))
              <=> (StatusReceived(c) /\ ResponseOk(resp[c].status) /\ resp[c].read)
         /\ (StatusReceived(c) /\ ResponseOk(resp[c].status) /\ ~resp[c].read) =>
              \/ outcome[c].kind = "return" /\ ReachableOf(c) = JBool(FALSE)
              \/ outcome[c].kind = "throw" /\ outcome[c].error.code = "UNKNOWN_ERROR"

\* a getStatus whose probe got status 200 and whose body read failed with a
\* connection failure: reachable: false
C29_Witness ==
  \E c \in Calls :
    /\ Settled(c) /\ op[c].name = "getStatus"
    /\ resp[c].status = 200 /\ ~resp[c].read
    /\ outcome[c].kind = "return" /\ ReachableOf(c) = JBool(FALSE)

\* a verify answered 406 returns success: false
C29_NegativeVerifyReached ==
  \E c \in Calls :
    /\ Settled(c) /\ op[c].name = "verify" /\ resp[c].status = 406
    /\ reqOut[c].error.code = "VERIFICATION_FAILED"
    /\ Get(outcome[c].value, k_success) = JBool(FALSE)

\* a getStatus whose body read failed with an unclassified error raises it
C29_RaisedAfter2xxReached ==
  \E c \in Calls :
    /\ Settled(c) /\ op[c].name = "getStatus"
    /\ ResponseOk(resp[c].status) /\ ~resp[c].read
    /\ outcome[c].kind = "throw" /\ outcome[c].error.code = "UNKNOWN_ERROR"

\* the exit path a settled call left request by
ExitPath(c) ==
  IF resp[c] = NoResponse THEN "transport rejection"
  ELSE IF ~ResponseOk(resp[c].status) THEN "non-2xx failure"
  ELSE IF resp[c].read THEN "2xx result"
  ELSE "body-read failure"

\* the timer of every call that settled or is not running is cancelled or
\* has expired; once the status arrived it is cancelled
TimerStopped ==
  \A c \in Calls :
    /\ Settled(c) => timer[c] \in {"cleared", "fired"}
    /\ (Settled(c) /\ ExitPath(c) # "transport rejection") => timer[c] = "cleared"
    /\ pc[c] = "body" => timer[c] = "cleared"
    /\ pc[c] = "idle" => timer[c] = "none"
    /\ timer[c] = "armed" => pc[c] = "fetch"

\* no timer expires, and no abort is delivered, for a call that has settled
NoAbortAfterSettle ==
  \A c \in Calls :
    Settled(c) => (timer'[c] \in {timer[c], "none"} /\ (Settled(c)' => thrown'[c] = thrown[c]))

\* C30: the timeout timer of a call never outlives the call. On every exit
\* path of request (2xx result, non-2xx failure, transport rejection,
\* body-read failure) the timer is cancelled, or has expired, when the call
\* settles, and no abort fires for a settled call.
C30_TimerNeverOutlivesCall ==
  /\ []TimerStopped
  /\ [][NoAbortAfterSettle]_vars

\* a 2xx result, the exit path with a single clearTimeout
C30_Witness ==
  \E c \in Calls :
    /\ Settled(c) /\ ExitPath(c) = "2xx result"
    /\ reqOut[c].kind = "return" /\ timer[c] = "cleared"

C30_NonOkExitReached ==
  \E c \in Calls : Settled(c) /\ ExitPath(c) = "non-2xx failure" /\ timer[c] = "cleared"

C30_RejectionExitReached ==
  \E c \in Calls :
    /\ Settled(c) /\ ExitPath(c) = "transport rejection"
    /\ timer[c] = "cleared" /\ reqOut[c].kind = "throw"

C30_BodyFailExitReached ==
  \E c \in Calls :
    /\ Settled(c) /\ ExitPath(c) = "body-read failure"
    /\ timer[c] = "cleared" /\ reqOut[c].kind = "throw"

====
